---- MODULE Spec2Model ----
(***************************************************************************)
(* Model of ILSim: the DL-EN1 communication unit (communication.py) and    *)
(* the IL sensor amplifiers behind it (sensor.py).                         *)
(*                                                                         *)
(* Representation                                                          *)
(*  - A request or reply line is a sequence of one-character strings.      *)
(*    "U+0661" stands for the single character ARABIC-INDIC DIGIT ONE (a   *)
(*    decimal digit for Python's \d and int()), "xFF" for a byte that is   *)
(*    not valid UTF-8.                                                     *)
(*  - A millimetre value (a Python float) is an integer number of          *)
(*    sub-units: one wire unit (10^-decimal_position mm) is SubUnit        *)
(*    sub-units.                                                           *)
(*  - "float | None" is a sequence: None is <<>>, the value v is <<v>>.    *)
(*  - An object reference to a SensorUnit is its 1-based position in       *)
(*    connected_sensors, 0 for None.                                       *)
(*  - Time (time.time()) is an integer number of seconds.                  *)
(***************************************************************************)
EXTENDS Integers, Sequences, FiniteSets, TLC

VARIABLES
  connected_sensors,   \* CommunicationUnit.connected_sensors
  internal_error,      \* CommunicationUnit.internal_error (DLEN1Error)
  mask_sensor_status,  \* CommunicationUnit.mask_sensor_status
  now,                 \* the wall clock read by time.time()
  op,                  \* the operation that produced the current state
  request,             \* the line last passed to handle_query
  reply,               \* the line handle_query returned (<<>> if it raised)
  raised,              \* the exception handle_query ended with, or "none"
  steps                \* number of operations performed on the built bus

vars == <<connected_sensors, internal_error, mask_sensor_status, now, op,
          request, reply, raised, steps>>

bus == <<connected_sensors, internal_error, mask_sensor_status>>

----------------------------------------------------------------------------
(* Bounds of the exploration *)

MaxSensors == 2
MaxSteps == 2

(* Resolution of the fixed-point stand-in for floats *)
SubUnit == 10
TiltScale == 1000

StartTime == 100

----------------------------------------------------------------------------
(* Optional values *)

None == <<>>
Some(v) == <<v>>
IsNone(x) == x = <<>>
IsNumber(x) == x # <<>>
Val(x) == x[1]

Abs(n) == IF n < 0 THEN -n ELSE n
Max(a, b) == IF a > b THEN a ELSE b
Min(a, b) == IF a < b THEN a ELSE b
Sign(n) == IF n < 0 THEN -1 ELSE 1

(* Python int(x): truncation toward zero of the quotient n / d, d > 0 *)
TruncDiv(n, d) == Sign(n) * (Abs(n) \div d)

(* Python float division n / d, rounded to the nearest sub-unit *)
RoundDiv(n, d) ==
  LET s == Sign(n) * Sign(d)
  IN s * ((2 * Abs(n) + Abs(d)) \div (2 * Abs(d)))

----------------------------------------------------------------------------
(* Characters and numbers on the wire *)

CR == "\r"
LF == "\n"
AsciiDigits == <<"0", "1", "2", "3", "4", "5", "6", "7", "8", "9">>
AsciiDigitSet == {AsciiDigits[k] : k \in 1..10}
UnicodeDigitOne == "U+0661"
InvalidByte == "xFF"

(* re: \d in a str pattern matches every Unicode decimal digit *)
IsDigit(c) == c \in AsciiDigitSet \cup {UnicodeDigitOne}

(* int(): the value of one decimal digit character *)
DigitValue(c) ==
  IF c = UnicodeDigitOne THEN 1
  ELSE CHOOSE k \in 0..9 : AsciiDigits[k + 1] = c

RECURSIVE ParseDigits(_)
ParseDigits(s) ==
  IF s = <<>> THEN 0
  ELSE 10 * ParseDigits(SubSeq(s, 1, Len(s) - 1)) + DigitValue(s[Len(s)])

(* int() of "+ddd" / "-ddd" / "ddd" *)
ParseInt(s) ==
  IF s[1] = "-" THEN -ParseDigits(Tail(s))
  ELSE IF s[1] = "+" THEN ParseDigits(Tail(s))
  ELSE ParseDigits(s)

RECURSIVE DecimalDigits(_)
DecimalDigits(n) ==
  IF n < 10 THEN <<AsciiDigits[n + 1]>>
  ELSE DecimalDigits(n \div 10) \o <<AsciiDigits[(n % 10) + 1]>>

RECURSIVE Zeros(_)
Zeros(k) == IF k <= 0 THEN <<>> ELSE <<"0">> \o Zeros(k - 1)

(* str(n) for an int *)
Str(n) == IF n < 0 THEN <<"-">> \o DecimalDigits(-n) ELSE DecimalDigits(n)

(* f"{n:0>w}": str(n) right-aligned in width w, filled with "0" *)
PadLeft(n, w) == Zeros(w - Len(Str(n))) \o Str(n)

(* f"{n:+010d}": sign, then the digits zero-padded to a total width of 10 *)
Signed10(n) ==
  LET d == DecimalDigits(Abs(n))
  IN <<IF n < 0 THEN "-" ELSE "+">> \o Zeros(9 - Len(d)) \o d

----------------------------------------------------------------------------
(* Enumerations of sensor.py (IntEnum values) *)

OPERATING == 0
NORMAL_TERMINATION == 1
ABNORMAL_TERMINATION == 2

SAMPLE_HOLD == 0
PEAK_HOLD == 1
BOTTOM_HOLD == 2
PEAK_TO_PEAK_HOLD == 3
AUTO_PEAK_HOLD == 4
AUTO_BOTTOM_HOLD == 5

CALC_OFF == 0
CALC_ADDITION == 1
CALC_SUBTRACTION == 2

SCALING_INITIAL == 0
SCALING_FREE_RANGE == 1
SCALING_BANK == 2

CALIBRATION_MODE_TWO_POINT == 1
CALIBRATION_MODE_THREE_POINT == 2

ANALOG_OFF == 0
ANALOG_CURRENT_4_TO_20 == 4

(* ILError bits *)
IL_NO_ERROR == 0
IL_Overcurrent == 1
IL_EEPROM == 2
IL_Sensor_Head == 4

(* DLEN1Error *)
DLEN1_NO_ERROR == 0
DLEN1_ERROR_051 == 51

(* members of DisplayDigit: DisplayDigit(n) raises ValueError otherwise *)
DisplayDigitMembers == 0..4

----------------------------------------------------------------------------
(* Fixed-point codec: SensorUnit.int_to_mm / mm_to_int *)

WireMax == 99999

(* Wire integers n >= 0 for which float(n / 10**d) * 10**d is just below n  *)
(* in IEEE double arithmetic (so that int() of it is n - 1), among the wire *)
(* values 0..1100 (d = 3) and 0..120 (d = 2); none exists for d = 1.        *)
LossyWire(d) ==
  IF d = 3 THEN {1001, 1003, 1005, 1007, 1009, 1011, 1013, 1015, 1017,
                 1019, 1021, 1023}
  ELSE IF d = 2 THEN {29, 57, 58, 113, 114, 115, 116}
  ELSE {}

(* the float value/10**d in sub-units, as its product with 10**d comes out *)
int_to_mm(a, value) ==
  value * SubUnit - (IF Abs(value) \in LossyWire(a.decimal_position)
                     THEN Sign(value) ELSE 0)

mm_to_int(a, value) ==
  IF IsNone(value) THEN -99998
  ELSE IF Val(value) > a.upper_bound THEN 99999
  ELSE IF Val(value) < a.lower_bound THEN -99999
  ELSE TruncDiv(Val(value), SubUnit)

----------------------------------------------------------------------------
(* Hold functions and the timing input of one amplifier (record a) *)

ClearHold(a) ==
  [a EXCEPT !.hold_value = None, !.hold_peak = None, !.hold_bottom = None]

(* the common body of _peak_hold, _bottom_hold, _peak_to_peak_hold;        *)
(* kind selects the last assignment to _hold_value                         *)
SampleInto(a, kind) ==
  LET c == Val(a.calc_value)
      peak == IF IsNone(a.hold_peak) THEN c ELSE Max(Val(a.hold_peak), c)
      bottom == IF IsNone(a.hold_bottom) THEN c
                ELSE Min(Val(a.hold_bottom), c)
  IN [a EXCEPT !.hold_peak = Some(peak),
               !.hold_bottom = Some(bottom),
               !.hold_value = Some(CASE kind = "peak" -> peak
                                     [] kind = "bottom" -> bottom
                                     [] OTHER -> peak - bottom)]

(* variant: an absent CALC value is not taken over *)
sample_hold_ignoring_absent(a) ==
  IF ~(a.timing_input_on_edge \/ a.timing_input) /\ IsNumber(a.calc_value)
  THEN [a EXCEPT !.p_v_value = a.calc_value]
  ELSE a

sample_hold(a) ==
  IF ~(a.timing_input_on_edge \/ a.timing_input)
  THEN [a EXCEPT !.p_v_value = a.calc_value]
  ELSE a

TimedHold(a, kind) ==
  IF a.currently_sampling /\ ~a.error_during_sampling
  THEN IF IsNone(a.calc_value)
       THEN [ClearHold(a) EXCEPT !.error_during_sampling = TRUE]
       ELSE SampleInto(a, kind)
  ELSE a

(* variant: the judgment value follows the running maximum *)
peak_hold_tracking(a) ==
  [TimedHold(a, "peak") EXCEPT !.p_v_value = TimedHold(a, "peak").hold_value]

peak_hold(a) == TimedHold(a, "peak")
bottom_hold(a) == TimedHold(a, "bottom")
peak_to_peak_hold(a) == TimedHold(a, "peak_to_peak")

(* variant: sampling ends at the trigger level, the hysteresis ignored *)
auto_peak_hold_without_hysteresis(a) ==
  LET start_level == a.auto_trigger_level
      end_level == a.auto_trigger_level
  IN IF IsNone(a.calc_value) \/ Val(a.calc_value) < end_level
     THEN [a EXCEPT !.currently_sampling = FALSE, !.p_v_value = a.hold_value]
     ELSE IF Val(a.calc_value) > start_level
             /\ (a.currently_sampling \/ ~a.timing_input)
     THEN LET b == IF ~a.currently_sampling
                   THEN [ClearHold(a) EXCEPT !.currently_sampling = TRUE]
                   ELSE a
          IN SampleInto(b, "peak")
     ELSE a

auto_peak_hold(a) ==
  LET start_level == a.auto_trigger_level
      end_level == a.auto_trigger_level - a.hysteresis
  IN IF IsNone(a.calc_value) \/ Val(a.calc_value) < end_level
     THEN [a EXCEPT !.currently_sampling = FALSE, !.p_v_value = a.hold_value]
     ELSE IF Val(a.calc_value) > start_level
             /\ (a.currently_sampling \/ ~a.timing_input)
     THEN LET b == IF ~a.currently_sampling
                   THEN [ClearHold(a) EXCEPT !.currently_sampling = TRUE]
                   ELSE a
          IN SampleInto(b, "peak")
     ELSE a

auto_bottom_hold(a) ==
  LET start_level == a.auto_trigger_level
      end_level == a.auto_trigger_level + a.hysteresis
  IN IF IsNone(a.calc_value) \/ Val(a.calc_value) > end_level
     THEN [a EXCEPT !.currently_sampling = FALSE, !.p_v_value = a.hold_value]
     ELSE IF Val(a.calc_value) < start_level
             /\ (a.currently_sampling \/ ~a.timing_input)
     THEN LET b == IF ~a.currently_sampling
                   THEN [ClearHold(a) EXCEPT !.currently_sampling = TRUE]
                   ELSE a
          IN SampleInto(b, "bottom")
     ELSE a

update_P_V_value(a) ==
  CASE a.hold_function_setting = SAMPLE_HOLD -> sample_hold(a)
    [] a.hold_function_setting = PEAK_HOLD -> peak_hold(a)
    [] a.hold_function_setting = BOTTOM_HOLD -> bottom_hold(a)
    [] a.hold_function_setting = PEAK_TO_PEAK_HOLD -> peak_to_peak_hold(a)
    [] a.hold_function_setting = AUTO_PEAK_HOLD -> auto_peak_hold(a)
    [] a.hold_function_setting = AUTO_BOTTOM_HOLD -> auto_bottom_hold(a)

(* timing_input.setter *)
set_timing_input(a, value) ==
  LET edge == (value # a.timing_input)
      positive_edge == edge /\ value
      negative_edge == edge /\ ~value
      a1 == [a EXCEPT !.timing_input = value]
  IN IF a1.hold_function_setting = SAMPLE_HOLD
     THEN IF a1.timing_input_on_edge /\ positive_edge
          THEN [a1 EXCEPT !.p_v_value = a1.calc_value]
          ELSE a1
     ELSE IF a1.hold_function_setting \in
               {PEAK_HOLD, BOTTOM_HOLD, PEAK_TO_PEAK_HOLD}
     THEN LET a2 == IF positive_edge
                    THEN [a1 EXCEPT !.currently_sampling = FALSE,
                                    !.error_during_sampling = FALSE,
                                    !.p_v_value = a1.hold_value]
                    ELSE a1
          IN IF edge /\ (a2.timing_input_on_edge \/ negative_edge)
             THEN [ClearHold(a2) EXCEPT !.currently_sampling = TRUE]
             ELSE a2
     ELSE a1

update_timing_input_status(a) ==
  set_timing_input(a,
    ((a.external_input_3_setting = 0 \/ ~a.external_input_use_user_settings)
      /\ a.external_input_3)
    \/ a.stored_timing_input)

----------------------------------------------------------------------------
(* Construction of a SensorUnit *)

(* SensorHeadCode *)
IL_030 == 1
IL_300 == 4
IL_2000 == 311

(* keyword arguments of the create_IL_xxx class methods, lengths in wire *)
(* units of the head's decimal position                                  *)
create_IL_030 ==
  [connected_sensor_head |-> IL_030, decimal_position |-> 3,
   measurement_range_max |-> 45000, measurement_range_min |-> 20000,
   reference_distance |-> 30000, reference_distance_tolerance |-> 250,
   reference_distance_analog_tolerance |-> 5000, uncertainty |-> 10,
   default_analog_upper_limit |-> 5000, default_analog_lower_limit |-> -5000,
   default_tolerance_setting_range |-> 200,
   default_threshold_high |-> 5000, default_threshold_low |-> -5000,
   default_auto_trigger_level |-> 1000,
   default_bank_analog_upper_limit |-> 10000,
   default_bank_analog_lower_limit |-> -10000,
   default_sampling_cycle |-> 1000, default_display_digit |-> 2]

create_IL_300 ==
  [connected_sensor_head |-> IL_300, decimal_position |-> 2,
   measurement_range_max |-> 45000, measurement_range_min |-> 16000,
   reference_distance |-> 30000, reference_distance_tolerance |-> 700,
   reference_distance_analog_tolerance |-> 14000, uncertainty |-> 30,
   default_analog_upper_limit |-> 14000,
   default_analog_lower_limit |-> -14000,
   default_tolerance_setting_range |-> 200,
   default_threshold_high |-> 5000, default_threshold_low |-> -5000,
   default_auto_trigger_level |-> 1000,
   default_bank_analog_upper_limit |-> 10000,
   default_bank_analog_lower_limit |-> -10000,
   default_sampling_cycle |-> 2000, default_display_digit |-> 1]

create_IL_2000 ==
  [connected_sensor_head |-> IL_2000, decimal_position |-> 1,
   measurement_range_max |-> 35000, measurement_range_min |-> 10000,
   reference_distance |-> 20000, reference_distance_tolerance |-> 500,
   reference_distance_analog_tolerance |-> 10000, uncertainty |-> 10,
   default_analog_upper_limit |-> 10000,
   default_analog_lower_limit |-> -10000,
   default_tolerance_setting_range |-> 200,
   default_threshold_high |-> 5000, default_threshold_low |-> -5000,
   default_auto_trigger_level |-> 1000,
   default_bank_analog_upper_limit |-> 10000,
   default_bank_analog_lower_limit |-> -10000,
   default_sampling_cycle |-> 5000, default_display_digit |-> 0]

(* variant: every call sets the deadline anew *)
start_eeprom_write_restarting(a, t, write_duration) ==
  [a EXCEPT !.eeprom_write_result = OPERATING,
            !.next_eeprom_write = Some(t + write_duration)]

start_eeprom_write(a, t, write_duration) ==
  LET next_write == t + write_duration
  IN [a EXCEPT !.eeprom_write_result = OPERATING,
               !.next_eeprom_write =
                  IF IsNone(@) \/ Val(@) < next_write
                  THEN Some(next_write) ELSE @]

(* perform_eeprom_writes: one pass of the loop of _eeprom_thread at time t *)
(* SensorUnit.stop_threads *)
stop_threads_keeping_alive(a) == a

stop_threads(a) == [a EXCEPT !.keep_threads_alive = FALSE]

(* The position of a background thread (_eeprom_thread, _input_thread):  *)
(* "loop" before the test of `while self._keep_threads_alive` (this      *)
(* includes the sleep that ends an iteration), "body" after the test     *)
(* found the flag set, "done" after the test found it cleared and the    *)
(* thread's entry point returned.                                        *)
Threads == {"eeprom_thread", "input_thread"}

perform_eeprom_writes(a, t) ==
  IF IsNumber(a.next_eeprom_write) /\ Val(a.next_eeprom_write) <= t
  THEN [a EXCEPT !.eeprom_write_result =
                    IF a.internal_error = IL_EEPROM
                    THEN ABNORMAL_TERMINATION ELSE NORMAL_TERMINATION,
                 !.next_eeprom_write = None]
  ELSE a

(* start_eeprom_write assigns eeprom_write_result before it takes         *)
(* _eeprom_lock. A pass of perform_eeprom_writes that finds the earlier   *)
(* deadline elapsed and runs between that assignment and the lock writes  *)
(* its own result over OPERATING; start_eeprom_write then sets the new    *)
(* deadline. a is the amplifier before the request, a1 after it.          *)
Overtaken(a, a1, t) ==
  [a1 EXCEPT !.eeprom_write_result =
               perform_eeprom_writes(a, t).eeprom_write_result]

create_bank(a) ==
  [threshold_high |-> a.default_threshold_high,
   threshold_low |-> a.default_threshold_low,
   shift_target |-> a.default_shift_target,
   analog_upper_limit |-> a.default_bank_analog_upper_limit,
   analog_lower_limit |-> a.default_bank_analog_lower_limit]

restore_default_settings(a, t) ==
  LET a1 ==
    [a EXCEPT
      !.hold_value = None, !.hold_bottom = None, !.hold_peak = None,
      !.banks = <<create_bank(a), create_bank(a), create_bank(a),
                  create_bank(a)>>,
      !.active_bank_setting = 0,
      !.free_analog_upper_limit = a.default_bank_analog_upper_limit,
      !.free_analog_lower_limit = a.default_bank_analog_lower_limit,
      !.tolerance_setting_range = a.default_tolerance_setting_range,
      !.auto_trigger_level = a.default_auto_trigger_level,
      !.two_point_high_side_1st_point = None,
      !.two_point_low_side_1st_point = None,
      !.two_point_diff_count_1st_point = None,
      !.calibration_set_1_before = None,
      !.calc_2p_calibration_set_1_before_calc = None,
      !.calc_3p_calibration_set_1_before_calc = None,
      !.calc_3p_calibration_set_1_before_rv_main = None,
      !.calc_3p_calibration_set_1_before_rv_expansion = None,
      !.calc_3p_calibration_set_2_before_calc = None,
      !.calc_3p_calibration_set_2_before_rv_main = None,
      !.calc_3p_calibration_set_2_before_rv_expansion = None,
      !.alarm_count = 7,
      !.alarm_setting = 0,
      !.analog_output_scaling_mode = SCALING_INITIAL,
      !.calc_2p_calibration_set_1 = int_to_mm(a, 5000),
      !.calc_2p_calibration_set_2 = int_to_mm(a, 10000),
      !.calc_3p_calibration_set_1 = int_to_mm(a, 5000),
      !.calc_3p_calibration_set_3 = int_to_mm(a, 10000),
      !.calc_calibration_mode = 0,
      !.calculation_mode = CALC_OFF,
      !.delay_timer_setting = 0,
      !.diff_count_filter_timer_duration = 10,
      !.display_color = 0,
      !.display_digit_setting = 0,
      !.external_input_1 = FALSE, !.external_input_1_setting = 0,
      !.external_input_2 = FALSE, !.external_input_2_setting = 0,
      !.external_input_3 = FALSE, !.external_input_3_setting = 0,
      !.external_input_4 = FALSE, !.external_input_4_setting = 0,
      !.external_input_use_user_settings = FALSE,
      !.filter_setting = 4,
      !.head_display_mode = 0,
      !.high_pass_cutoff_frequency = 3,
      !.hold_function_setting = SAMPLE_HOLD,
      !.hysteresis = 0,
      !.key_locked = FALSE,
      !.stored_laser_emission_stop = FALSE,
      !.mutual_interference_prevention_active = FALSE,
      !.output_mode_normally_closed = FALSE,
      !.power_saving_mode = 0,
      !.reversed_measurement_direction = FALSE,
      !.sampling_cycle = 0,
      !.stored_timing_input = FALSE,
      !.subdisplay_screen_mode = 0,
      !.switch_banks_via_external_input = FALSE,
      !.timer_duration = 60,
      !.timing_input_on_edge = FALSE,
      !.zero_shift_saved_in_memory = FALSE]
  IN start_eeprom_write(update_timing_input_status(a1), t, 3)

set_system_parameters(a, t) ==
  start_eeprom_write(
    [a EXCEPT !.analog_output_mode = a.future_analog_output_mode,
              !.transistor_mode = a.future_transistor_mode], t, 2)

----------------------------------------------------------------------------
(* The value cascade raw -> R.V. -> CALC -> P.V. over the list S of the  *)
(* connected amplifiers; i is the position of the amplifier acted on     *)

active_bank_index(a) == a.active_bank_setting
active_bank(a) == a.banks[active_bank_index(a) + 1]
shift_target(a) == active_bank(a).shift_target
threshold_high(a) == active_bank(a).threshold_high
threshold_low(a) == active_bank(a).threshold_low

(* tilt * x for a tilt kept in units of 1/TiltScale *)
Scaled(tilt, x) == RoundDiv(tilt * x, TiltScale)

set_calculation_value(a, value) ==
  update_P_V_value([a EXCEPT !.calc_value = value])

get_calculated_value(S, i) ==
  LET a == S[i]
      sub_unit == a.connected_amplifier
      tilt == IF a.calibration_use_user_settings
              THEN a.calculation_tilt ELSE TiltScale
      offset == IF a.calibration_use_user_settings
                THEN a.calculation_offset ELSE 0
  IN IF a.calculation_mode = CALC_OFF \/ sub_unit = 0 THEN a.r_v_value
     ELSE IF IsNone(a.r_v_value) \/ IsNone(S[sub_unit].r_v_value) THEN None
     ELSE IF a.calculation_mode = CALC_ADDITION
     THEN Some(Scaled(tilt, Val(a.r_v_value) + Val(S[sub_unit].r_v_value))
               + offset)
     ELSE Some(Scaled(tilt, Val(a.r_v_value) - Val(S[sub_unit].r_v_value))
               + offset)

(* update_CALC_value(_from_sub_unit=True): no further propagation *)
update_CALC_value_from_sub_unit(S, i) ==
  [S EXCEPT ![i] =
     set_calculation_value(S[i],
       IF IsNone(S[i].r_v_value) THEN None
       ELSE IF S[i].is_main_unit THEN get_calculated_value(S, i)
       ELSE S[i].r_v_value)]

(* the expansion unit's half of update_CALC_value: S1 is the list after *)
(* the amplifier's own CALC value was set                               *)
PropagateToMainUnit(S1, i) ==
  IF IsNumber(S1[i].r_v_value) /\ ~S1[i].is_main_unit
     /\ S1[i].connected_amplifier # 0
  THEN update_CALC_value_from_sub_unit(S1, S1[i].connected_amplifier)
  ELSE S1

update_CALC_value(S, i) ==
  PropagateToMainUnit(update_CALC_value_from_sub_unit(S, i), i)

set_measurement_value(S, i, value) ==
  update_CALC_value([S EXCEPT ![i].r_v_value = value], i)

update_R_V_value(S, i) ==
  LET a == S[i]
      direction == IF a.reversed_measurement_direction THEN -1 ELSE 1
      tilt == IF a.calibration_use_user_settings
              THEN a.calibration_tilt ELSE TiltScale
      offset == IF a.calibration_use_user_settings
                THEN a.calibration_offset ELSE 0
  IN set_measurement_value(S, i,
       IF IsNone(a.raw_value) THEN None
       ELSE Some(Scaled(tilt, direction * Val(a.raw_value) - shift_target(a))
                 + offset))

set_raw_value(S, i, value) ==
  update_R_V_value([S EXCEPT ![i].raw_value = value], i)

(* SensorUnit.__init__ called at time t with the keyword arguments kw *)
SensorUnit(kw, t) ==
  LET dp == [decimal_position |-> kw.decimal_position]
      a0 ==
       [keep_threads_alive |-> TRUE,
        eeprom_thread |-> "loop",
        input_thread |-> "loop",
        next_eeprom_write |-> None,
        calibration_tilt |-> TiltScale,
        calibration_offset |-> 0,
        calculation_tilt |-> TiltScale,
        calculation_offset |-> 0,
        hold_value |-> None, hold_bottom |-> None, hold_peak |-> None,
        measurement_range_max |-> kw.measurement_range_max * SubUnit,
        measurement_range_min |-> kw.measurement_range_min * SubUnit,
        reference_distance |-> kw.reference_distance * SubUnit,
        reference_distance_tolerance |->
          kw.reference_distance_tolerance * SubUnit,
        reference_distance_analog_tolerance |->
          kw.reference_distance_analog_tolerance * SubUnit,
        decimal_position |-> kw.decimal_position,
        lower_bound |-> int_to_mm(dp, -WireMax),
        upper_bound |-> int_to_mm(dp, WireMax),
        uncertainty |-> kw.uncertainty * SubUnit,
        default_analog_upper_limit |-> kw.default_analog_upper_limit * SubUnit,
        default_analog_lower_limit |-> kw.default_analog_lower_limit * SubUnit,
        default_tolerance_setting_range |->
          kw.default_tolerance_setting_range * SubUnit,
        default_threshold_high |-> kw.default_threshold_high * SubUnit,
        default_threshold_low |-> kw.default_threshold_low * SubUnit,
        default_shift_target |-> 0,
        default_bank_analog_upper_limit |->
          kw.default_bank_analog_upper_limit * SubUnit,
        default_bank_analog_lower_limit |->
          kw.default_bank_analog_lower_limit * SubUnit,
        default_auto_trigger_level |-> kw.default_auto_trigger_level * SubUnit,
        default_sampling_cycle |-> kw.default_sampling_cycle,
        default_display_digit |-> kw.default_display_digit,
        connected_sensor_head |-> kw.connected_sensor_head,
        calibration_set_1 |-> int_to_mm(dp, 0),
        calibration_set_2 |-> int_to_mm(dp, 5000),
        calibration_set_1_real |-> int_to_mm(dp, 0),
        calibration_set_2_real |-> int_to_mm(dp, 5000),
        calibration_use_user_settings |-> FALSE,
        randomized |-> FALSE,
        randomized_upper_limit |->
          (kw.reference_distance - kw.measurement_range_min) * SubUnit,
        randomized_lower_limit |->
          (kw.reference_distance - kw.measurement_range_max) * SubUnit,
        is_main_unit |-> TRUE,
        connected_amplifier |-> 0,
        timing_input |-> FALSE,
        abnormal_settings |-> FALSE,
        currently_sampling |-> TRUE,
        eeprom_write_result |-> NORMAL_TERMINATION,
        tuning_result |-> NORMAL_TERMINATION,
        zero_shifting_result |-> NORMAL_TERMINATION,
        reset_request_result |-> NORMAL_TERMINATION,
        calibration_result |-> NORMAL_TERMINATION,
        internal_error |-> IL_NO_ERROR,
        device_type |-> 0,
        revision |-> 257,
        series_version |-> 1,
        error_during_sampling |-> FALSE,
        future_transistor_mode |-> 0,
        future_analog_output_mode |-> ANALOG_OFF,
        (* attributes first assigned by the calls below *)
        raw_value |-> None, r_v_value |-> None, calc_value |-> None,
        p_v_value |-> None,
        banks |-> <<>>, active_bank_setting |-> 0,
        free_analog_upper_limit |-> 0, free_analog_lower_limit |-> 0,
        tolerance_setting_range |-> 0, auto_trigger_level |-> 0,
        two_point_high_side_1st_point |-> None,
        two_point_low_side_1st_point |-> None,
        two_point_diff_count_1st_point |-> None,
        calibration_set_1_before |-> None,
        calc_2p_calibration_set_1_before_calc |-> None,
        calc_3p_calibration_set_1_before_calc |-> None,
        calc_3p_calibration_set_1_before_rv_main |-> None,
        calc_3p_calibration_set_1_before_rv_expansion |-> None,
        calc_3p_calibration_set_2_before_calc |-> None,
        calc_3p_calibration_set_2_before_rv_main |-> None,
        calc_3p_calibration_set_2_before_rv_expansion |-> None,
        alarm_count |-> 0, alarm_setting |-> 0,
        analog_output_scaling_mode |-> 0,
        calc_2p_calibration_set_1 |-> 0, calc_2p_calibration_set_2 |-> 0,
        calc_3p_calibration_set_1 |-> 0, calc_3p_calibration_set_3 |-> 0,
        calc_calibration_mode |-> 0, calculation_mode |-> 0,
        delay_timer_setting |-> 0, diff_count_filter_timer_duration |-> 0,
        display_color |-> 0, display_digit_setting |-> 0,
        external_input_1 |-> FALSE, external_input_1_setting |-> 0,
        external_input_2 |-> FALSE, external_input_2_setting |-> 0,
        external_input_3 |-> FALSE, external_input_3_setting |-> 0,
        external_input_4 |-> FALSE, external_input_4_setting |-> 0,
        external_input_use_user_settings |-> FALSE,
        filter_setting |-> 0, head_display_mode |-> 0,
        high_pass_cutoff_frequency |-> 0, hold_function_setting |-> 0,
        hysteresis |-> 0, key_locked |-> FALSE,
        stored_laser_emission_stop |-> FALSE,
        mutual_interference_prevention_active |-> FALSE,
        output_mode_normally_closed |-> FALSE, power_saving_mode |-> 0,
        reversed_measurement_direction |-> FALSE, sampling_cycle |-> 0,
        stored_timing_input |-> FALSE, subdisplay_screen_mode |-> 0,
        switch_banks_via_external_input |-> FALSE, timer_duration |-> 0,
        timing_input_on_edge |-> FALSE, zero_shift_saved_in_memory |-> FALSE,
        analog_output_mode |-> 0, transistor_mode |-> 0]
      a1 == restore_default_settings(a0, t)
      a2 == set_system_parameters(
              [a1 EXCEPT !.future_transistor_mode = 0,
                         !.future_analog_output_mode = ANALOG_OFF], t)
  IN set_raw_value(<<a2>>, 1, Some(0))[1]

----------------------------------------------------------------------------
(* Derived properties of one amplifier *)

has_error(a) == a.internal_error # IL_NO_ERROR

RECURSIVE LowestBit(_)
LowestBit(n) == IF n % 2 = 1 THEN 1 ELSE 1 + LowestBit(n \div 2)
(* int(-bitmask & bitmask).bit_length() *)
error_code(a) == IF a.internal_error = 0 THEN 0 ELSE LowestBit(a.internal_error)

(* LASER_EMISSION_STOP is 3 in every ExternalInputNSetting *)
laser_active(a) ==
  ~( (a.external_input_use_user_settings
        /\ ( (a.external_input_1_setting = 3 /\ a.external_input_1)
          \/ (a.external_input_2_setting = 3 /\ a.external_input_2)
          \/ (a.external_input_3_setting = 3 /\ a.external_input_3)
          \/ (a.external_input_4_setting = 3 /\ a.external_input_4)))
     \/ a.stored_laser_emission_stop
     \/ a.internal_error = IL_Sensor_Head )

is_out_of_range(a) ==
  \/ ~laser_active(a)
  \/ IsNone(a.p_v_value)
  \/ Val(a.p_v_value) > a.upper_bound
  \/ Val(a.p_v_value) < a.lower_bound

alarm_state(a) == a.internal_error # IL_NO_ERROR \/ IsNone(a.raw_value)

OtherThanEEPROM(a) ==
  a.internal_error # IL_NO_ERROR /\ a.internal_error # IL_EEPROM

NoJudgment(a) ==
  ~laser_active(a) \/ IsNone(a.raw_value) \/ IsNone(a.p_v_value)

high_state_beyond_both(a) ==
  IF a.internal_error % 2 = 1 THEN FALSE
  ELSE IF OtherThanEEPROM(a) THEN TRUE
  ELSE IF NoJudgment(a) THEN FALSE
  ELSE Val(a.raw_value) > a.upper_bound
       /\ Val(a.p_v_value) > threshold_high(a)

high_state(a) ==
  IF a.internal_error % 2 = 1 THEN FALSE
  ELSE IF OtherThanEEPROM(a) THEN TRUE
  ELSE IF NoJudgment(a) THEN FALSE
  ELSE Val(a.raw_value) > a.upper_bound
       \/ Val(a.p_v_value) > threshold_high(a)

low_state(a) ==
  IF a.internal_error % 2 = 1 THEN FALSE
  ELSE IF OtherThanEEPROM(a) THEN TRUE
  ELSE IF NoJudgment(a) THEN FALSE
  ELSE Val(a.raw_value) < a.lower_bound
       \/ Val(a.p_v_value) < threshold_low(a)

(* variant: the Overcurrent bit does not suppress GO *)
go_state_under_overcurrent(a) ==
  IF a.internal_error \notin {IL_NO_ERROR, IL_Overcurrent, IL_EEPROM,
                              IL_EEPROM + IL_Overcurrent}
  THEN FALSE
  ELSE IF NoJudgment(a) THEN FALSE
  ELSE ~( Val(a.raw_value) > a.upper_bound
          \/ Val(a.p_v_value) > threshold_high(a)
          \/ Val(a.raw_value) < a.lower_bound
          \/ Val(a.p_v_value) < threshold_low(a) )

go_state(a) ==
  IF a.internal_error % 2 = 1 THEN FALSE
  ELSE IF OtherThanEEPROM(a) THEN FALSE
  ELSE IF NoJudgment(a) THEN FALSE
  ELSE ~( Val(a.raw_value) > a.upper_bound
          \/ Val(a.p_v_value) > threshold_high(a)
          \/ Val(a.raw_value) < a.lower_bound
          \/ Val(a.p_v_value) < threshold_low(a) )

OUTPUT_FALSE(a) == a.output_mode_normally_closed
OUTPUT_TRUE(a) == ~a.output_mode_normally_closed
alarm_output(a) == ~alarm_state(a)
high_output(a) == IF high_state(a) THEN OUTPUT_TRUE(a) ELSE OUTPUT_FALSE(a)
low_output(a) == IF low_state(a) THEN OUTPUT_TRUE(a) ELSE OUTPUT_FALSE(a)
go_output(a) == IF go_state(a) THEN OUTPUT_TRUE(a) ELSE OUTPUT_FALSE(a)

value_invalid(a) == ~laser_active(a) \/ IsNone(a.p_v_value)
value_under_range(a) ==
  IsNumber(a.p_v_value) /\ Val(a.p_v_value) < a.lower_bound
value_over_range(a) ==
  IsNumber(a.p_v_value) /\ Val(a.p_v_value) > a.upper_bound

(* OutputState: All_OFF 0, HIGH 1, LOW 2, Error 3, GO 4 *)
output_state(a) ==
  IF a.internal_error # IL_NO_ERROR THEN 3
  ELSE IF high_state(a) THEN 1
  ELSE IF low_state(a) THEN 2
  ELSE IF go_state(a) THEN 4
  ELSE 0

(* the under-range sentinel of the docstring in place of the constant: a *)
(* faulty variant                                                        *)
judgment_value_under_range_negative(a) ==
  IF a.internal_error # IL_NO_ERROR THEN 100000000
  ELSE IF value_invalid(a) THEN -99999998
  ELSE IF value_over_range(a) THEN 99999999
  ELSE IF value_under_range(a) THEN -99999999
  ELSE mm_to_int(a, a.p_v_value)

judgment_value_for_communication_unit(a) ==
  IF a.internal_error # IL_NO_ERROR THEN 100000000
  ELSE IF value_invalid(a) THEN -99999998
  ELSE IF value_over_range(a) THEN 99999999
  ELSE IF value_under_range(a) THEN 99999999
  ELSE mm_to_int(a, a.p_v_value)

stringified_state(a) == PadLeft(output_state(a), 2)
stringified_value(a) == Signed10(judgment_value_for_communication_unit(a))

(* the analog output in thousandths of a volt or milliampere *)
max_analog_value(a) ==
  IF a.analog_output_mode = ANALOG_OFF THEN 0
  ELSE IF a.analog_output_mode = ANALOG_CURRENT_4_TO_20 THEN 20000
  ELSE 5000

min_analog_value(a) ==
  CASE a.analog_output_mode = ANALOG_OFF -> 0
    [] a.analog_output_mode = ANALOG_CURRENT_4_TO_20 -> 4000
    [] a.analog_output_mode = 1 -> 0
    [] a.analog_output_mode = 3 -> 1000
    [] a.analog_output_mode = 2 -> -5000

analog_upper_limit(a) ==
  IF a.analog_output_scaling_mode = SCALING_BANK
  THEN active_bank(a).analog_upper_limit
  ELSE IF a.analog_output_scaling_mode = SCALING_FREE_RANGE
  THEN a.free_analog_upper_limit
  ELSE a.default_analog_upper_limit

analog_lower_limit(a) ==
  IF a.analog_output_scaling_mode = SCALING_BANK
  THEN active_bank(a).analog_lower_limit
  ELSE IF a.analog_output_scaling_mode = SCALING_FREE_RANGE
  THEN a.free_analog_lower_limit
  ELSE a.default_analog_lower_limit

(* scale_values(x, x1, y1, x2, y2); "ZeroDivisionError" when x1 = x2 *)
scale_values(x, x1, y1, x2, y2) ==
  IF x2 = x1 THEN [exc |-> "ZeroDivisionError", value |-> 0]
  ELSE [exc |-> "none",
        value |-> y1 + RoundDiv((y2 - y1) * (x - x1), x2 - x1)]

analog_value(a) ==
  IF a.analog_output_mode = ANALOG_OFF THEN [exc |-> "none", value |-> 0]
  ELSE IF a.internal_error # IL_NO_ERROR \/ value_invalid(a)
  THEN [exc |-> "none",
        value |-> IF a.analog_output_mode = ANALOG_CURRENT_4_TO_20
                  THEN 3000 ELSE 5500]
  ELSE IF Val(a.p_v_value) > analog_upper_limit(a)
  THEN [exc |-> "none", value |-> max_analog_value(a)]
  ELSE IF Val(a.p_v_value) <= analog_lower_limit(a)
  THEN [exc |-> "none", value |-> min_analog_value(a)]
  ELSE scale_values(Val(a.p_v_value), analog_lower_limit(a),
                    min_analog_value(a), analog_upper_limit(a),
                    max_analog_value(a))

----------------------------------------------------------------------------
(* Write handlers of the amplifier. Each takes the amplifier a, the       *)
(* setting data v and the current time t, and yields the amplifier after  *)
(* the call together with the exception the call ended with ("none" for   *)
(* a normal return). A handler may have assigned before it raises.        *)

Return(a) == [a |-> a, exc |-> "none"]
Raise(a, e) == [a |-> a, exc |-> e]

SetBank(a, index, field, value) ==
  [a EXCEPT !.banks[index + 1] = [@ EXCEPT ![field] = value]]

change_low_threshold(a, value, index, t) ==
  start_eeprom_write(SetBank(a, index, "threshold_low", value), t, 2)
change_high_threshold(a, value, index, t) ==
  start_eeprom_write(SetBank(a, index, "threshold_high", value), t, 2)
change_shift_target(a, value, index, t) ==
  LET a1 == SetBank(a, index, "shift_target", value)
  IN IF a1.zero_shift_saved_in_memory THEN start_eeprom_write(a1, t, 0)
     ELSE a1
change_analog_upper_limit(a, value, index, t) ==
  start_eeprom_write(SetBank(a, index, "analog_upper_limit", value), t, 2)
change_analog_lower_limit(a, value, index, t) ==
  start_eeprom_write(SetBank(a, index, "analog_lower_limit", value), t, 2)
change_bank(a, index, t) ==
  start_eeprom_write([a EXCEPT !.active_bank_setting = index], t, 2)

reset(a, t) ==
  IF ~a.zero_shift_saved_in_memory
  THEN LET a1 == change_shift_target(a, 0, active_bank_index(a), t)
       IN [a1 EXCEPT !.banks =
             [k \in 1..4 |-> [a1.banks[k] EXCEPT !.shift_target = 0]]]
  ELSE a

(* 0.5 <= num / den <= 2.0, for den # 0 *)
FactorInRange(num, den) ==
  IF den > 0 THEN 2 * num >= den /\ num <= 2 * den
  ELSE 2 * num <= den /\ num >= 2 * den

(* get_scale_values applied to the back-transformed points, with tilts  *)
(* in units of 1/TiltScale: the new tilt is (after2 - after1) /          *)
(* ((before2 - before1) / old_tilt)                                      *)
NewTilt(old_tilt, before1, after1, before2, after2) ==
  RoundDiv((after2 - after1) * old_tilt, before2 - before1)
NewOffset(old_offset, before1, after1, before2, after2) ==
  after1 - RoundDiv((before1 - old_offset) * (after2 - after1),
                    before2 - before1)

calibrate_sensor(a, p1_before, p1_after, p2_before, p2_after) ==
  [a EXCEPT
    !.calibration_tilt =
       NewTilt(a.calibration_tilt, p1_before, p1_after, p2_before, p2_after),
    !.calibration_offset =
       NewOffset(a.calibration_offset, p1_before, p1_after, p2_before,
                 p2_after)]

calibrate_calc(a, p1_before, p1_after, p2_before, p2_after) ==
  [a EXCEPT
    !.calculation_tilt =
       NewTilt(a.calculation_tilt, p1_before, p1_after, p2_before, p2_after),
    !.calculation_offset =
       NewOffset(a.calculation_offset, p1_before, p1_after, p2_before,
                 p2_after)]

write_001(a, v, t) ==
  IF v # 1 THEN Raise(a, "WriteDataOutsideValidRangeError")
  ELSE IF IsNone(a.raw_value)
  THEN Return([a EXCEPT !.zero_shifting_result = ABNORMAL_TERMINATION])
  ELSE Return([change_shift_target(a, Val(a.raw_value),
                                   active_bank_index(a), t)
                EXCEPT !.zero_shifting_result = NORMAL_TERMINATION])

write_002(a, v, t) ==
  IF v # 1 THEN Raise(a, "WriteDataOutsideValidRangeError")
  ELSE Return([change_shift_target(a, 0, active_bank_index(a), t)
                EXCEPT !.zero_shifting_result = NORMAL_TERMINATION])

write_003(a, v, t) ==
  IF v # 1 THEN Raise(a, "WriteDataOutsideValidRangeError")
  ELSE Return([reset(a, t) EXCEPT !.reset_request_result = NORMAL_TERMINATION])

(* variant: the initial reset leaves the hold function as it was *)
write_005_keeping_hold(a, v, t) ==
  IF v # 1 THEN Raise(a, "WriteDataOutsideValidRangeError")
  ELSE Return([restore_default_settings(a, t) EXCEPT
                 !.hold_function_setting = a.hold_function_setting])

write_005_recalibrating(a, v, t) ==
  IF v # 1 THEN Raise(a, "WriteDataOutsideValidRangeError")
  ELSE Return([restore_default_settings(a, t) EXCEPT
                 !.calibration_tilt = TiltScale,
                 !.calibration_offset = 0])

write_005(a, v, t) ==
  IF v # 1 THEN Raise(a, "WriteDataOutsideValidRangeError")
  ELSE Return(restore_default_settings(a, t))

write_006(a, v, t) ==
  IF v # 1 THEN Raise(a, "WriteDataOutsideValidRangeError")
  ELSE Return(set_system_parameters(a, t))

write_014(a, v, t) ==
  IF v # 1 THEN Raise(a, "WriteDataOutsideValidRangeError")
  ELSE IF IsNone(a.p_v_value)
  THEN Raise([a EXCEPT !.tuning_result = ABNORMAL_TERMINATION],
             "NonExecutableStateError")
  ELSE LET new_upper_limit == Val(a.p_v_value) + a.tolerance_setting_range
           new_lower_limit == Val(a.p_v_value) - a.tolerance_setting_range
           a1 == change_high_threshold(a, new_upper_limit,
                                       active_bank_index(a), t)
           a2 == change_low_threshold(a1, new_lower_limit,
                                      active_bank_index(a1), t)
       IN Return([a2 EXCEPT !.tuning_result = NORMAL_TERMINATION])

write_015(a, v, t) ==
  IF v # 1 THEN Raise(a, "WriteDataOutsideValidRangeError")
  ELSE IF IsNone(a.r_v_value)
  THEN Raise([a EXCEPT !.two_point_high_side_1st_point = None,
                       !.tuning_result = ABNORMAL_TERMINATION],
             "NonExecutableStateError")
  ELSE Return([a EXCEPT !.tuning_result = OPERATING,
                        !.two_point_high_side_1st_point = a.r_v_value])

write_016(a, v, t) ==
  IF v # 1 THEN Raise(a, "WriteDataOutsideValidRangeError")
  ELSE IF IsNone(a.r_v_value) \/ IsNone(a.two_point_high_side_1st_point)
  THEN Raise([a EXCEPT !.two_point_high_side_1st_point = None,
                       !.tuning_result = ABNORMAL_TERMINATION],
             "NonExecutableStateError")
  ELSE LET new_high == (Val(a.two_point_high_side_1st_point)
                        + Val(a.r_v_value)) \div 2
       IN Return([change_high_threshold(a, new_high, active_bank_index(a), t)
                   EXCEPT !.tuning_result = NORMAL_TERMINATION])

write_017(a, v, t) ==
  IF v # 1 THEN Raise(a, "WriteDataOutsideValidRangeError")
  ELSE IF IsNone(a.r_v_value)
  THEN Raise([a EXCEPT !.two_point_low_side_1st_point = None,
                       !.tuning_result = ABNORMAL_TERMINATION],
             "NonExecutableStateError")
  ELSE Return([a EXCEPT !.tuning_result = OPERATING,
                        !.two_point_low_side_1st_point = a.r_v_value])

write_018(a, v, t) ==
  IF v # 1 THEN Raise(a, "WriteDataOutsideValidRangeError")
  ELSE IF IsNone(a.r_v_value) \/ IsNone(a.two_point_low_side_1st_point)
  THEN Raise([a EXCEPT !.two_point_low_side_1st_point = None,
                       !.tuning_result = ABNORMAL_TERMINATION],
             "NonExecutableStateError")
  ELSE LET new_low == (Val(a.two_point_low_side_1st_point)
                       + Val(a.r_v_value)) \div 2
       IN Return([change_low_threshold(a, new_low, active_bank_index(a), t)
                   EXCEPT !.tuning_result = NORMAL_TERMINATION])

Abnormal(a) == [a EXCEPT !.calibration_result = ABNORMAL_TERMINATION]
Operating(a) == [a EXCEPT !.calibration_result = OPERATING]

write_019(a, v, t) ==
  IF v # 1 THEN Raise(a, "WriteDataOutsideValidRangeError")
  ELSE IF IsNone(a.r_v_value) \/ ~a.calibration_use_user_settings
  THEN Raise(Abnormal(a), "NonExecutableStateError")
  ELSE Return([Operating(a) EXCEPT !.calibration_set_1_before = a.r_v_value])

write_020(a, v, t) ==
  IF v # 1 THEN Raise(a, "WriteDataOutsideValidRangeError")
  ELSE IF IsNone(a.r_v_value) \/ IsNone(a.calibration_set_1_before)
  THEN Raise([Abnormal(a) EXCEPT !.calibration_set_1_before = None],
             "NonExecutableStateError")
  ELSE IF ~a.calibration_use_user_settings
  THEN Raise(Abnormal(a), "NonExecutableStateError")
  ELSE LET before_1 == Val(a.calibration_set_1_before)
           before_2 == Val(a.r_v_value)
       IN IF before_2 = before_1
          THEN Raise(Operating(a), "ZeroDivisionError")
          ELSE IF ~FactorInRange(a.calibration_set_2 - a.calibration_set_1,
                                 before_2 - before_1)
          THEN Raise([Abnormal(a) EXCEPT !.calibration_set_1_before = None],
                     "NonExecutableStateError")
          ELSE LET a1 == calibrate_sensor(a, before_1, a.calibration_set_1,
                                          before_2, a.calibration_set_2)
                   a2 == [a1 EXCEPT !.calibration_set_1_before = None]
               IN Return([start_eeprom_write(a2, t, 2) EXCEPT
                            !.calibration_result = NORMAL_TERMINATION])

write_021(a, v, t) ==
  IF v # 1 THEN Raise(a, "WriteDataOutsideValidRangeError")
  ELSE IF \/ IsNone(a.calc_value)
          \/ ~a.calibration_use_user_settings
          \/ a.calc_calibration_mode # CALIBRATION_MODE_TWO_POINT
  THEN Raise(Abnormal(a), "NonExecutableStateError")
  ELSE Return([Operating(a) EXCEPT
                 !.calc_2p_calibration_set_1_before_calc = a.calc_value])

write_022(a, v, t) ==
  IF v # 1 THEN Raise(a, "WriteDataOutsideValidRangeError")
  ELSE IF \/ IsNone(a.calc_value)
          \/ IsNone(a.calc_2p_calibration_set_1_before_calc)
          \/ ~a.calibration_use_user_settings
          \/ a.calc_calibration_mode # CALIBRATION_MODE_TWO_POINT
  THEN Raise([Abnormal(a) EXCEPT
                !.calc_2p_calibration_set_1_before_calc = None],
             "NonExecutableStateError")
  ELSE LET before_1 == Val(a.calc_2p_calibration_set_1_before_calc)
           before_2 == Val(a.calc_value)
       IN IF before_2 = before_1
          THEN Raise(Operating(a), "ZeroDivisionError")
          ELSE IF ~FactorInRange(a.calc_2p_calibration_set_2
                                   - a.calc_2p_calibration_set_1,
                                 before_2 - before_1)
          THEN Raise([Abnormal(a) EXCEPT
                        !.calc_2p_calibration_set_1_before_calc = None],
                     "NonExecutableStateError")
          ELSE LET a1 == calibrate_calc(a, before_1,
                                        a.calc_2p_calibration_set_1,
                                        before_2,
                                        a.calc_2p_calibration_set_2)
                   a2 == [a1 EXCEPT
                            !.calc_2p_calibration_set_1_before_calc = None]
               IN Return([start_eeprom_write(a2, t, 2) EXCEPT
                            !.calibration_result = NORMAL_TERMINATION])

(* the conditions write_023, 024 and 025 share; e is the R.V. value of *)
(* the connected amplifier (None when there is none)                   *)
ThreePointReady(a, e) ==
  /\ a.is_main_unit /\ a.connected_amplifier # 0
  /\ IsNumber(a.r_v_value) /\ IsNumber(e) /\ IsNumber(a.calc_value)
  /\ a.calibration_use_user_settings
  /\ a.calc_calibration_mode = CALIBRATION_MODE_THREE_POINT

ClearSet1(a) ==
  [a EXCEPT !.calc_3p_calibration_set_1_before_calc = None,
            !.calc_3p_calibration_set_1_before_rv_main = None,
            !.calc_3p_calibration_set_1_before_rv_expansion = None]
ClearSet2(a) ==
  [a EXCEPT !.calc_3p_calibration_set_2_before_calc = None,
            !.calc_3p_calibration_set_2_before_rv_main = None,
            !.calc_3p_calibration_set_2_before_rv_expansion = None]
HasSet1(a) ==
  /\ IsNumber(a.calc_3p_calibration_set_1_before_calc)
  /\ IsNumber(a.calc_3p_calibration_set_1_before_rv_main)
  /\ IsNumber(a.calc_3p_calibration_set_1_before_rv_expansion)
HasSet2(a) ==
  /\ IsNumber(a.calc_3p_calibration_set_2_before_calc)
  /\ IsNumber(a.calc_3p_calibration_set_2_before_rv_main)
  /\ IsNumber(a.calc_3p_calibration_set_2_before_rv_expansion)

write_023(a, e, v, t) ==
  IF v # 1 THEN Raise(a, "WriteDataOutsideValidRangeError")
  ELSE IF ~ThreePointReady(a, e)
  THEN Raise(Abnormal(a), "NonExecutableStateError")
  ELSE Return([Operating(a) EXCEPT
         !.calc_3p_calibration_set_1_before_calc = a.calc_value,
         !.calc_3p_calibration_set_1_before_rv_main = a.r_v_value,
         !.calc_3p_calibration_set_1_before_rv_expansion = e])

write_024(a, e, v, t) ==
  IF v # 1 THEN Raise(a, "WriteDataOutsideValidRangeError")
  ELSE IF ~ThreePointReady(a, e) \/ ~HasSet1(a)
  THEN Raise(ClearSet1(Abnormal(a)), "NonExecutableStateError")
  ELSE Return([Operating(a) EXCEPT
         !.calc_3p_calibration_set_2_before_calc = a.calc_value,
         !.calc_3p_calibration_set_2_before_rv_main = a.r_v_value,
         !.calc_3p_calibration_set_2_before_rv_expansion = e])

write_025(a, e, v, t) ==
  IF v # 1 THEN Raise(a, "WriteDataOutsideValidRangeError")
  ELSE IF \/ ~ThreePointReady(a, e)
          \/ a.calculation_mode = CALC_OFF
          \/ ~HasSet1(a) \/ ~HasSet2(a)
  THEN Raise(ClearSet2(ClearSet1(Abnormal(a))), "NonExecutableStateError")
  ELSE LET den_1 == Val(a.calc_value)
                    - Val(a.calc_3p_calibration_set_1_before_calc)
           num_1 == a.calc_3p_calibration_set_3 - a.calc_3p_calibration_set_1
           den_2 == Val(a.calc_3p_calibration_set_2_before_rv_main)
                    - Val(a.calc_3p_calibration_set_1_before_rv_main)
           (* coeff is -1: the enumeration member ADDITION is truthy *)
           num_2 == -1 * (Val(a.calc_3p_calibration_set_2_before_rv_expansion)
                      - Val(a.calc_3p_calibration_set_1_before_rv_expansion))
       IN IF den_1 = 0 \/ den_2 = 0
          THEN Raise(Operating(a), "ZeroDivisionError")
          ELSE IF ~(FactorInRange(num_1, den_1) /\ FactorInRange(num_2, den_2))
          THEN Raise(ClearSet2(ClearSet1(Abnormal(a))),
                     "NonExecutableStateError")
          ELSE Return([start_eeprom_write(a, t, 2) EXCEPT
                         !.calibration_result = NORMAL_TERMINATION])

write_026(a, v, t) ==
  IF v # 1 THEN Raise(a, "WriteDataOutsideValidRangeError")
  ELSE IF IsNone(a.p_v_value)
  THEN Raise([a EXCEPT !.tuning_result = ABNORMAL_TERMINATION],
             "NonExecutableStateError")
  ELSE LET new_high == Abs(Val(a.p_v_value) * 2)
           new_low == Abs(Val(a.p_v_value)) \div 2
           a1 == change_high_threshold(a, new_high, active_bank_index(a), t)
           a2 == change_low_threshold(a1, new_low, active_bank_index(a1), t)
       IN Return([a2 EXCEPT !.tuning_result = NORMAL_TERMINATION])

write_027(a, v, t) ==
  IF v # 1 THEN Raise(a, "WriteDataOutsideValidRangeError")
  ELSE IF IsNone(a.r_v_value)
  THEN Raise([a EXCEPT !.two_point_diff_count_1st_point = None,
                       !.tuning_result = ABNORMAL_TERMINATION],
             "NonExecutableStateError")
  ELSE Return([a EXCEPT !.tuning_result = OPERATING,
                        !.two_point_diff_count_1st_point = a.r_v_value])

write_028(a, v, t) ==
  IF v # 1 THEN Raise(a, "WriteDataOutsideValidRangeError")
  ELSE IF IsNone(a.r_v_value) \/ IsNone(a.two_point_diff_count_1st_point)
  THEN Raise([a EXCEPT !.two_point_diff_count_1st_point = None,
                       !.tuning_result = ABNORMAL_TERMINATION],
             "NonExecutableStateError")
  ELSE LET expected_step_size == Val(a.two_point_diff_count_1st_point)
                                 - Val(a.r_v_value)
           new_high == Abs(expected_step_size * 2)
           new_low == Abs(expected_step_size) \div 2
           a1 == change_high_threshold(a, new_high, active_bank_index(a), t)
           a2 == change_low_threshold(a1, new_low, active_bank_index(a1), t)
       IN Return([a2 EXCEPT !.tuning_result = NORMAL_TERMINATION])

----------------------------------------------------------------------------
(* Read handlers of the amplifier (each yields an integer) *)

Bit(b) == IF b THEN 1 ELSE 0

(* the guard and clamping read_037, read_038 and read_041 share *)
ReadValue(a, value, unavailable) ==
  IF ~laser_active(a) \/ IsNone(value) \/ unavailable THEN -99998
  ELSE IF Val(value) > a.upper_bound THEN 99999
  ELSE IF Val(value) < a.lower_bound THEN -99999
  ELSE mm_to_int(a, value)

read_033(a) == a.internal_error
read_036(a) ==
  Bit(high_output(a)) + 2 * Bit(low_output(a)) + 4 * Bit(go_output(a))
  + 8 * Bit(alarm_output(a))
read_037(a) == ReadValue(a, a.p_v_value, FALSE)
read_038(a) == ReadValue(a, a.r_v_value, FALSE)
read_039(a) ==
  IF a.hold_function_setting = SAMPLE_HOLD THEN -99998
  ELSE mm_to_int(a, a.hold_peak)
read_040(a) ==
  IF a.hold_function_setting = SAMPLE_HOLD THEN -99998
  ELSE mm_to_int(a, a.hold_bottom)
read_041(a) == ReadValue(a, a.calc_value, ~a.is_main_unit)
read_042(a) ==
  IF ~a.is_main_unit \/ a.analog_output_mode = ANALOG_OFF THEN 0
  ELSE IF a.analog_output_mode = ANALOG_CURRENT_4_TO_20
  THEN TruncDiv(analog_value(a).value, 10)
  ELSE analog_value(a).value
read_043(a) == active_bank_index(a)
read_044(a) == Bit(a.timing_input)
read_050(a) == Bit(~laser_active(a))
read_051(a) == Bit(a.abnormal_settings)
read_052(a) ==
  Bit(a.external_input_1) + 2 * Bit(a.external_input_2)
  + 4 * Bit(a.external_input_3) + 8 * Bit(a.external_input_4)
read_053(a) == a.eeprom_write_result
read_054(a) == a.zero_shifting_result
read_055(a) == a.reset_request_result
read_056(a) ==
  a.transistor_mode + (IF a.is_main_unit THEN 2 * a.analog_output_mode ELSE 0)
read_060(a) == a.tuning_result
read_061(a) == a.calibration_result

(* Registers 065..084: five per bank *)
BankRegisters == 65..84
BankOf(n) == (n - 65) \div 5
BankFields ==
  <<"threshold_high", "threshold_low", "shift_target", "analog_upper_limit",
    "analog_lower_limit">>
BankFieldOf(n) == BankFields[((n - 65) % 5) + 1]

WireRange == (-WireMax)..WireMax

read_06X(a, n) == mm_to_int(a, Some(a.banks[BankOf(n) + 1][BankFieldOf(n)]))

write_06X_high_setting_value_bank_Y(a, bank_index, v, t) ==
  IF v \notin WireRange THEN Raise(a, "WriteDataOutsideValidRangeError")
  ELSE Return(change_high_threshold(a, int_to_mm(a, v), bank_index, t))

write_06X_low_setting_value_bank_Y(a, bank_index, v, t) ==
  IF v \notin WireRange THEN Raise(a, "WriteDataOutsideValidRangeError")
  ELSE Return(change_low_threshold(a, int_to_mm(a, v), bank_index, t))

write_06X_shift_target_value_bank_Y(a, bank_index, v, t) ==
  IF v \notin WireRange THEN Raise(a, "WriteDataOutsideValidRangeError")
  ELSE Return(change_shift_target(a, int_to_mm(a, v), bank_index, t))

write_06X_analog_output_upper_limit_bank_Y(a, bank_index, v, t) ==
  IF ~a.is_main_unit THEN Raise(a, "QueryWriteProtectedError")
  ELSE IF v \notin WireRange THEN Raise(a, "WriteDataOutsideValidRangeError")
  ELSE Return(change_analog_upper_limit(a, int_to_mm(a, v), bank_index, t))

write_06X_analog_output_lower_limit_bank_Y(a, bank_index, v, t) ==
  IF ~a.is_main_unit THEN Raise(a, "QueryWriteProtectedError")
  ELSE IF v \notin WireRange THEN Raise(a, "WriteDataOutsideValidRangeError")
  ELSE Return(change_analog_lower_limit(a, int_to_mm(a, v), bank_index, t))

write_06X(a, n, v, t) ==
  CASE (n - 65) % 5 = 0 ->
         write_06X_high_setting_value_bank_Y(a, BankOf(n), v, t)
    [] (n - 65) % 5 = 1 ->
         write_06X_low_setting_value_bank_Y(a, BankOf(n), v, t)
    [] (n - 65) % 5 = 2 ->
         write_06X_shift_target_value_bank_Y(a, BankOf(n), v, t)
    [] (n - 65) % 5 = 3 ->
         write_06X_analog_output_upper_limit_bank_Y(a, BankOf(n), v, t)
    [] (n - 65) % 5 = 4 ->
         write_06X_analog_output_lower_limit_bank_Y(a, BankOf(n), v, t)

----------------------------------------------------------------------------
(* Setting registers 097..114 *)

(* the common shape: range check, one assignment, start_eeprom_write *)
Store(a, valid, field, value, t) ==
  IF ~valid THEN Raise(a, "WriteDataOutsideValidRangeError")
  ELSE Return(start_eeprom_write([a EXCEPT ![field] = value], t, 2))

(* the same for the registers an expansion unit refuses *)
StoreMainOnly(a, valid, field, value, t) ==
  IF ~a.is_main_unit THEN Raise(a, "QueryWriteProtectedError")
  ELSE Store(a, valid, field, value, t)

read_097(a) == Bit(a.key_locked)
write_097(a, v, t) == Store(a, v \in {0, 1}, "key_locked", v = 1, t)

read_098(a) == a.active_bank_setting
write_098(a, v, t) ==
  IF v \notin {0, 1, 2, 3} THEN Raise(a, "WriteDataOutsideValidRangeError")
  ELSE IF ~a.switch_banks_via_external_input THEN Return(change_bank(a, v, t))
  ELSE Return(a)

read_099(a) == Bit(a.stored_timing_input)
write_099(a, v, t) ==
  IF v \notin {0, 1} THEN Raise(a, "WriteDataOutsideValidRangeError")
  ELSE Return(update_timing_input_status(
         start_eeprom_write([a EXCEPT !.stored_timing_input = (v = 1)],
                            t, 2)))

read_100(a) == Bit(a.stored_laser_emission_stop)
write_100(a, v, t) ==
  Store(a, v \in {0, 1}, "stored_laser_emission_stop", v = 1, t)

read_104(a) == a.subdisplay_screen_mode
write_104(a, v, t) == Store(a, v \in 0..5, "subdisplay_screen_mode", v, t)

read_105(a) ==
  a.future_transistor_mode
  + (IF a.is_main_unit THEN 2 * a.future_analog_output_mode ELSE 0)

write_105(a, v, t) ==
  LET bit_0 == v % 2
      bit_123 == (v % 16) \div 2
      rest_bits == v \div 16
  IN IF rest_bits # 0 \/ bit_123 \notin {0, 1, 2, 3, 4}
     THEN Raise(a, "WriteDataOutsideValidRangeError")
     ELSE Return([a EXCEPT !.future_transistor_mode = bit_0,
                           !.future_analog_output_mode = bit_123])

read_106(a) == mm_to_int(a, Some(a.tolerance_setting_range))
write_106(a, v, t) ==
  Store(a, v \in 0..WireMax, "tolerance_setting_range", int_to_mm(a, v), t)

read_107(a) == Bit(a.calibration_use_user_settings)
write_107(a, v, t) ==
  Store(a, v \in {0, 1}, "calibration_use_user_settings", v = 1, t)

read_108(a) == mm_to_int(a, Some(a.calibration_set_1))
write_108(a, v, t) ==
  Store(a, v \in WireRange, "calibration_set_1", int_to_mm(a, v), t)

read_109(a) == mm_to_int(a, Some(a.calibration_set_2))
write_109(a, v, t) ==
  Store(a, v \in WireRange, "calibration_set_2", int_to_mm(a, v), t)

read_110(a) == a.calc_calibration_mode
write_110(a, v, t) ==
  StoreMainOnly(a, v \in {0, 1, 2}, "calc_calibration_mode", v, t)

read_111(a) == mm_to_int(a, Some(a.calc_2p_calibration_set_1))
write_111(a, v, t) ==
  StoreMainOnly(a, v \in WireRange, "calc_2p_calibration_set_1",
                int_to_mm(a, v), t)

read_112(a) == mm_to_int(a, Some(a.calc_2p_calibration_set_2))
write_112(a, v, t) ==
  StoreMainOnly(a, v \in WireRange, "calc_2p_calibration_set_2",
                int_to_mm(a, v), t)

read_113(a) == mm_to_int(a, Some(a.calc_3p_calibration_set_1))
write_113(a, v, t) ==
  StoreMainOnly(a, v \in WireRange, "calc_3p_calibration_set_1",
                int_to_mm(a, v), t)

read_114(a) == mm_to_int(a, Some(a.calc_3p_calibration_set_3))
write_114(a, v, t) ==
  StoreMainOnly(a, v \in WireRange, "calc_3p_calibration_set_3",
                int_to_mm(a, v), t)

----------------------------------------------------------------------------
(* Setting registers 129..145 *)

read_129(a) == a.calculation_mode

(* write_129 also assigns to the connected amplifier: it acts on the list *)
write_129(S, i, v, t) ==
  LET a == S[i]
      sub == a.connected_amplifier
  IN IF ~a.is_main_unit \/ sub = 0
     THEN [S |-> S, exc |-> "QueryWriteProtectedError"]
     ELSE IF v \notin {0, 1, 2}
     THEN [S |-> S, exc |-> "WriteDataOutsideValidRangeError"]
     ELSE LET S1 == [S EXCEPT ![i].calculation_mode = v]
              S2 == IF v # CALC_OFF
                    THEN [S1 EXCEPT
                            ![sub].filter_setting = a.filter_setting,
                            ![sub].sampling_cycle = a.sampling_cycle]
                    ELSE S1
          IN [S |-> [S2 EXCEPT ![i] = start_eeprom_write(S2[i], t, 2)],
              exc |-> "none"]

read_131(a) == Bit(a.reversed_measurement_direction)
write_131(a, v, t) ==
  Store(a, v \in {0, 1}, "reversed_measurement_direction", v = 1, t)

read_132(a) == a.sampling_cycle
write_132(a, v, t) == Store(a, v \in 0..4, "sampling_cycle", v, t)

read_133(a) == a.filter_setting
write_133(a, v, t) == Store(a, v \in 0..14, "filter_setting", v, t)

read_134(a) == Bit(a.output_mode_normally_closed)
write_134(a, v, t) ==
  Store(a, v \in {0, 1}, "output_mode_normally_closed", v = 1, t)

read_136(a) == a.hold_function_setting
write_136(a, v, t) == Store(a, v \in 0..5, "hold_function_setting", v, t)

read_137(a) == mm_to_int(a, Some(a.auto_trigger_level))
write_137(a, v, t) ==
  Store(a, v \in WireRange, "auto_trigger_level", int_to_mm(a, v), t)

read_138(a) == Bit(a.timing_input_on_edge)
write_138(a, v, t) == Store(a, v \in {0, 1}, "timing_input_on_edge", v = 1, t)

read_139(a) == a.delay_timer_setting
write_139(a, v, t) == Store(a, v \in 0..3, "delay_timer_setting", v, t)

read_140(a) == a.timer_duration
write_140(a, v, t) == Store(a, v \in 5..9999, "timer_duration", v, t)

read_141(a) == mm_to_int(a, Some(a.hysteresis))
write_141(a, v, t) ==
  Store(a, v \in 0..WireMax, "hysteresis", int_to_mm(a, v), t)

read_142(a) == a.analog_output_scaling_mode
write_142(a, v, t) ==
  StoreMainOnly(a, v \in {0, 1, 2}, "analog_output_scaling_mode", v, t)

(* the body write_143 and write_144 share *)
WriteFreeRange(a, field, v, t) ==
  IF ~a.is_main_unit THEN Raise(a, "QueryWriteProtectedError")
  ELSE IF v \notin WireRange THEN Raise(a, "WriteDataOutsideValidRangeError")
  ELSE IF a.analog_output_scaling_mode = SCALING_BANK
  THEN Raise(a, "NonExecutableStateError")
  ELSE IF a.analog_output_scaling_mode = SCALING_FREE_RANGE
  THEN Return(start_eeprom_write([a EXCEPT ![field] = int_to_mm(a, v)], t, 2))
  ELSE Raise(a, "QueryWriteProtectedError")

read_143(a) == mm_to_int(a, Some(a.free_analog_upper_limit))
write_143(a, v, t) == WriteFreeRange(a, "free_analog_upper_limit", v, t)

read_144(a) == mm_to_int(a, Some(a.free_analog_lower_limit))
write_144(a, v, t) == WriteFreeRange(a, "free_analog_lower_limit", v, t)

read_145(a) == Bit(a.external_input_use_user_settings)
write_145(a, v, t) ==
  Store(a, v \in {0, 1}, "external_input_use_user_settings", v = 1, t)

----------------------------------------------------------------------------
(* Setting registers 146..162 and the identification registers 193..217 *)

read_146(a) == a.external_input_1_setting
write_146(a, v, t) == Store(a, v \in 0..4, "external_input_1_setting", v, t)
read_147(a) == a.external_input_2_setting
write_147(a, v, t) == Store(a, v \in 0..4, "external_input_2_setting", v, t)
read_148(a) == a.external_input_3_setting
write_148(a, v, t) == Store(a, v \in 0..4, "external_input_3_setting", v, t)
read_149(a) == a.external_input_4_setting
write_149(a, v, t) == Store(a, v \in 0..3, "external_input_4_setting", v, t)

read_150(a) == Bit(a.switch_banks_via_external_input)
write_150(a, v, t) ==
  Store(a, v \in {0, 1}, "switch_banks_via_external_input", v = 1, t)

read_152(a) == Bit(a.zero_shift_saved_in_memory)
write_152(a, v, t) ==
  Store(a, v \in {0, 1}, "zero_shift_saved_in_memory", v = 1, t)

read_153(a) == Bit(a.mutual_interference_prevention_active)
write_153(a, v, t) ==
  IF ~a.is_main_unit THEN Raise(a, "IDOutsideValidRangeError")
  ELSE Store(a, v \in {0, 1}, "mutual_interference_prevention_active",
             v = 1, t)

read_154(a) == a.display_digit_setting
(* DisplayDigit(setting_data) raises ValueError for a non-member *)
write_154(a, v, t) ==
  IF v \notin 0..5 THEN Raise(a, "WriteDataOutsideValidRangeError")
  ELSE IF v \notin DisplayDigitMembers THEN Raise(a, "ValueError")
  ELSE Store(a, TRUE, "display_digit_setting", v, t)

read_155(a) == a.power_saving_mode
write_155(a, v, t) == Store(a, v \in 0..2, "power_saving_mode", v, t)
read_156(a) == a.head_display_mode
write_156(a, v, t) == Store(a, v \in 0..2, "head_display_mode", v, t)
read_157(a) == a.display_color
write_157(a, v, t) == Store(a, v \in 0..2, "display_color", v, t)
read_158(a) == a.diff_count_filter_timer_duration
write_158(a, v, t) ==
  Store(a, v \in 2..9999, "diff_count_filter_timer_duration", v, t)
read_159(a) == a.high_pass_cutoff_frequency
write_159(a, v, t) == Store(a, v \in 0..9, "high_pass_cutoff_frequency", v, t)
read_161(a) == a.alarm_setting
write_161(a, v, t) == Store(a, v \in 0..2, "alarm_setting", v, t)
read_162(a) == a.alarm_count
write_162(a, v, t) == Store(a, v \in 0..1000, "alarm_count", v, t)

read_193(a) == IF a.is_main_unit THEN 4022 ELSE 4023
read_194(a) == 257
read_195(a) == a.connected_sensor_head
read_200(a) ==
  IF a.is_main_unit
  THEN <<"I", "L", "-", "1", "0", "0", "0", "/", "1", "5", "0", "0">>
  ELSE <<"I", "L", "-", "1", "0", "5", "0", "/", "1", "5", "5", "0">>
read_215(a) == IF a.is_main_unit THEN 4022 ELSE 4023
read_216(a) == 1
read_217(a) == 0

----------------------------------------------------------------------------
(* SensorUnit.init_mappings, handle_read and handle_write *)

sensor_read_mapping ==
  {33} \cup (36..44) \cup (50..56) \cup {60, 61} \cup BankRegisters
  \cup (97..100) \cup (104..114) \cup {129} \cup (131..134) \cup (136..150)
  \cup (152..159) \cup {161, 162} \cup {193, 194, 195, 200, 215, 216, 217}

sensor_write_mapping ==
  {1, 2, 3, 5, 6} \cup (14..28) \cup BankRegisters
  \cup (97..100) \cup (104..114) \cup {129} \cup (131..134) \cup (136..150)
  \cup (152..159) \cup {161, 162}

SensorReadHandler(a, n) ==
  CASE n = 33 -> read_033(a) [] n = 36 -> read_036(a)
    [] n = 37 -> read_037(a) [] n = 38 -> read_038(a)
    [] n = 39 -> read_039(a) [] n = 40 -> read_040(a)
    [] n = 41 -> read_041(a) [] n = 42 -> read_042(a)
    [] n = 43 -> read_043(a) [] n = 44 -> read_044(a)
    [] n = 50 -> read_050(a) [] n = 51 -> read_051(a)
    [] n = 52 -> read_052(a) [] n = 53 -> read_053(a)
    [] n = 54 -> read_054(a) [] n = 55 -> read_055(a)
    [] n = 56 -> read_056(a) [] n = 60 -> read_060(a)
    [] n = 61 -> read_061(a) [] n \in BankRegisters -> read_06X(a, n)
    [] n = 97 -> read_097(a) [] n = 98 -> read_098(a)
    [] n = 99 -> read_099(a) [] n = 100 -> read_100(a)
    [] n = 104 -> read_104(a) [] n = 105 -> read_105(a)
    [] n = 106 -> read_106(a) [] n = 107 -> read_107(a)
    [] n = 108 -> read_108(a) [] n = 109 -> read_109(a)
    [] n = 110 -> read_110(a) [] n = 111 -> read_111(a)
    [] n = 112 -> read_112(a) [] n = 113 -> read_113(a)
    [] n = 114 -> read_114(a) [] n = 129 -> read_129(a)
    [] n = 131 -> read_131(a) [] n = 132 -> read_132(a)
    [] n = 133 -> read_133(a) [] n = 134 -> read_134(a)
    [] n = 136 -> read_136(a) [] n = 137 -> read_137(a)
    [] n = 138 -> read_138(a) [] n = 139 -> read_139(a)
    [] n = 140 -> read_140(a) [] n = 141 -> read_141(a)
    [] n = 142 -> read_142(a) [] n = 143 -> read_143(a)
    [] n = 144 -> read_144(a) [] n = 145 -> read_145(a)
    [] n = 146 -> read_146(a) [] n = 147 -> read_147(a)
    [] n = 148 -> read_148(a) [] n = 149 -> read_149(a)
    [] n = 150 -> read_150(a) [] n = 152 -> read_152(a)
    [] n = 153 -> read_153(a) [] n = 154 -> read_154(a)
    [] n = 155 -> read_155(a) [] n = 156 -> read_156(a)
    [] n = 157 -> read_157(a) [] n = 158 -> read_158(a)
    [] n = 159 -> read_159(a) [] n = 161 -> read_161(a)
    [] n = 162 -> read_162(a) [] n = 193 -> read_193(a)
    [] n = 194 -> read_194(a) [] n = 195 -> read_195(a)
    [] n = 200 -> read_200(a) [] n = 215 -> read_215(a)
    [] n = 216 -> read_216(a) [] n = 217 -> read_217(a)

(* the write handlers that act on their own amplifier only *)
SensorWriteHandler(a, e, n, v, t) ==
  CASE n = 1 -> write_001(a, v, t) [] n = 2 -> write_002(a, v, t)
    [] n = 3 -> write_003(a, v, t) [] n = 5 -> write_005(a, v, t)
    [] n = 6 -> write_006(a, v, t) [] n = 14 -> write_014(a, v, t)
    [] n = 15 -> write_015(a, v, t) [] n = 16 -> write_016(a, v, t)
    [] n = 17 -> write_017(a, v, t) [] n = 18 -> write_018(a, v, t)
    [] n = 19 -> write_019(a, v, t) [] n = 20 -> write_020(a, v, t)
    [] n = 21 -> write_021(a, v, t) [] n = 22 -> write_022(a, v, t)
    [] n = 23 -> write_023(a, e, v, t) [] n = 24 -> write_024(a, e, v, t)
    [] n = 25 -> write_025(a, e, v, t) [] n = 26 -> write_026(a, v, t)
    [] n = 27 -> write_027(a, v, t) [] n = 28 -> write_028(a, v, t)
    [] n \in BankRegisters -> write_06X(a, n, v, t)
    [] n = 97 -> write_097(a, v, t) [] n = 98 -> write_098(a, v, t)
    [] n = 99 -> write_099(a, v, t) [] n = 100 -> write_100(a, v, t)
    [] n = 104 -> write_104(a, v, t) [] n = 105 -> write_105(a, v, t)
    [] n = 106 -> write_106(a, v, t) [] n = 107 -> write_107(a, v, t)
    [] n = 108 -> write_108(a, v, t) [] n = 109 -> write_109(a, v, t)
    [] n = 110 -> write_110(a, v, t) [] n = 111 -> write_111(a, v, t)
    [] n = 112 -> write_112(a, v, t) [] n = 113 -> write_113(a, v, t)
    [] n = 114 -> write_114(a, v, t)
    [] n = 131 -> write_131(a, v, t) [] n = 132 -> write_132(a, v, t)
    [] n = 133 -> write_133(a, v, t) [] n = 134 -> write_134(a, v, t)
    [] n = 136 -> write_136(a, v, t) [] n = 137 -> write_137(a, v, t)
    [] n = 138 -> write_138(a, v, t) [] n = 139 -> write_139(a, v, t)
    [] n = 140 -> write_140(a, v, t) [] n = 141 -> write_141(a, v, t)
    [] n = 142 -> write_142(a, v, t) [] n = 143 -> write_143(a, v, t)
    [] n = 144 -> write_144(a, v, t) [] n = 145 -> write_145(a, v, t)
    [] n = 146 -> write_146(a, v, t) [] n = 147 -> write_147(a, v, t)
    [] n = 148 -> write_148(a, v, t) [] n = 149 -> write_149(a, v, t)
    [] n = 150 -> write_150(a, v, t) [] n = 152 -> write_152(a, v, t)
    [] n = 153 -> write_153(a, v, t) [] n = 154 -> write_154(a, v, t)
    [] n = 155 -> write_155(a, v, t) [] n = 156 -> write_156(a, v, t)
    [] n = 157 -> write_157(a, v, t) [] n = 158 -> write_158(a, v, t)
    [] n = 159 -> write_159(a, v, t) [] n = 161 -> write_161(a, v, t)
    [] n = 162 -> write_162(a, v, t)

SensorMaxQuery == 223

(* handle_read with the codes of a write-only and of a reserved register *)
(* exchanged: a faulty dispatch                                          *)
sensor_handle_read_codes_swapped(a, query_data) ==
  IF query_data > SensorMaxQuery
  THEN [exc |-> "QueryOutsideValidRangeError", output |-> 0]
  ELSE IF query_data \notin sensor_read_mapping
  THEN IF query_data \in sensor_write_mapping
       THEN [exc |-> "InaccessibleIDOrQueryError", output |-> 0]
       ELSE [exc |-> "QueryReadProtectedError", output |-> 0]
  ELSE [exc |-> "none", output |-> SensorReadHandler(a, query_data)]

(* handle_read without the test for query_data > 223: a faulty dispatch *)
sensor_handle_read_unbounded(a, query_data) ==
  IF query_data \notin sensor_read_mapping
  THEN IF query_data \in sensor_write_mapping
       THEN [exc |-> "QueryReadProtectedError", output |-> 0]
       ELSE [exc |-> "InaccessibleIDOrQueryError", output |-> 0]
  ELSE [exc |-> "none", output |-> SensorReadHandler(a, query_data)]

sensor_handle_read(a, query_data) ==
  IF query_data > SensorMaxQuery
  THEN [exc |-> "QueryOutsideValidRangeError", output |-> 0]
  ELSE IF query_data \notin sensor_read_mapping
  THEN IF query_data \in sensor_write_mapping
       THEN [exc |-> "QueryReadProtectedError", output |-> 0]
       ELSE [exc |-> "InaccessibleIDOrQueryError", output |-> 0]
  ELSE [exc |-> "none", output |-> SensorReadHandler(a, query_data)]

sensor_handle_write(S, i, query_data, setting_data, t) ==
  IF query_data > SensorMaxQuery
  THEN [S |-> S, exc |-> "QueryOutsideValidRangeError"]
  ELSE IF query_data \notin sensor_write_mapping
  THEN IF query_data \in sensor_read_mapping
       THEN [S |-> S, exc |-> "QueryWriteProtectedError"]
       ELSE [S |-> S, exc |-> "InaccessibleIDOrQueryError"]
  ELSE IF query_data = 129 THEN write_129(S, i, setting_data, t)
  ELSE LET sub == S[i].connected_amplifier
           e == IF sub = 0 THEN None ELSE S[sub].r_v_value
           r == SensorWriteHandler(S[i], e, query_data, setting_data, t)
       IN [S |-> [S EXCEPT ![i] = r.a], exc |-> r.exc]

----------------------------------------------------------------------------
(* CommunicationUnit: registers of ID 00. S is connected_sensors, ie the *)
(* unit's internal_error and mask its mask_sensor_status.                *)

RECURSIVE BitsValue(_)
(* sum of 2**i * flag over enumerate(flags) *)
BitsValue(flags) ==
  IF flags = <<>> THEN 0 ELSE Bit(Head(flags)) + 2 * BitsValue(Tail(flags))

FirstWithError(S) ==
  IF \E k \in 1..Len(S) : has_error(S[k])
  THEN CHOOSE k \in 1..Len(S) :
         has_error(S[k]) /\ \A j \in 1..(k - 1) : ~has_error(S[j])
  ELSE 0

read_000_status(S, ie) ==
  Bit(ie # DLEN1_NO_ERROR)
  + 32768 * Bit(\E k \in 1..Len(S) : has_error(S[k]))
read_001_sensor_error_status(S) ==
  BitsValue([k \in 1..Len(S) |-> has_error(S[k])])
read_002_warning_status == 0
read_004_current_value_0_property(S) ==
  BitsValue([k \in 1..Len(S) |-> is_out_of_range(S[k])])
read_008_error_id_number(S, ie) ==
  IF ie # DLEN1_NO_ERROR THEN 0 ELSE FirstWithError(S)
read_009_error_code(S, ie) ==
  IF ie # DLEN1_NO_ERROR THEN ie
  ELSE IF FirstWithError(S) # 0 THEN error_code(S[FirstWithError(S)])
  ELSE 0
read_010_warning_id_number == 0
read_011_warning_code == 0
read_016_output_1_high(S) ==
  BitsValue([k \in 1..Len(S) |-> high_output(S[k])])
read_017_output_2_low(S) ==
  BitsValue([k \in 1..Len(S) |-> low_output(S[k])])
read_018_output_3_go(S) ==
  BitsValue([k \in 1..Len(S) |-> go_output(S[k])])
read_019_output_4_alarm(S) ==
  BitsValue([k \in 1..Len(S) |-> alarm_output(S[k])])
read_020_output_5 == 0
read_038_current_value_0_invalid(S) ==
  BitsValue([k \in 1..Len(S) |-> value_invalid(S[k])])
read_039_current_value_0_under_range(S) ==
  BitsValue([k \in 1..Len(S) |-> value_under_range(S[k])])
read_040_current_value_0_over_range(S) ==
  BitsValue([k \in 1..Len(S) |-> value_over_range(S[k])])

(* id is the 0-based position; IndexError becomes error 022 *)
read_044_to_058_current_value_id_Y(S, id) ==
  IF id + 1 > Len(S) THEN [exc |-> "IDOutsideValidRangeError", output |-> 0]
  ELSE [exc |-> "none",
        output |-> judgment_value_for_communication_unit(S[id + 1])]
read_076_sensor_status_mask_setting(mask) == Bit(mask)
write_076_sensor_status_mask_setting(mask, setting_data) ==
  IF setting_data # 0 /\ setting_data # 1
  THEN [mask |-> mask, exc |-> "WriteDataOutsideValidRangeError"]
  ELSE [mask |-> (setting_data = 1), exc |-> "none"]
read_077_sensor_connected_number(S) == Len(S)
read_668_error_code_id_00(ie) == ie
read_669_to_683_error_code_id_Y(S, id) ==
  IF id + 1 > Len(S) THEN [exc |-> "IDOutsideValidRangeError", output |-> 0]
  ELSE [exc |-> "none", output |-> S[id + 1].internal_error]

read_mapping ==
  {0, 1, 2, 4, 8, 9, 10, 11, 16, 17, 18, 19, 20, 38, 39, 40, 76, 77, 668}
  \cup (44..58) \cup (669..683)
write_mapping == {76}

UnitMaxQuery == 1179

UnitReadHandler(S, ie, mask, n) ==
  LET Out(x) == [exc |-> "none", output |-> x]
  IN CASE n = 0 -> Out(read_000_status(S, ie))
       [] n = 1 -> Out(read_001_sensor_error_status(S))
       [] n = 2 -> Out(read_002_warning_status)
       [] n = 4 -> Out(read_004_current_value_0_property(S))
       [] n = 8 -> Out(read_008_error_id_number(S, ie))
       [] n = 9 -> Out(read_009_error_code(S, ie))
       [] n = 10 -> Out(read_010_warning_id_number)
       [] n = 11 -> Out(read_011_warning_code)
       [] n = 16 -> Out(read_016_output_1_high(S))
       [] n = 17 -> Out(read_017_output_2_low(S))
       [] n = 18 -> Out(read_018_output_3_go(S))
       [] n = 19 -> Out(read_019_output_4_alarm(S))
       [] n = 20 -> Out(read_020_output_5)
       [] n = 38 -> Out(read_038_current_value_0_invalid(S))
       [] n = 39 -> Out(read_039_current_value_0_under_range(S))
       [] n = 40 -> Out(read_040_current_value_0_over_range(S))
       [] n \in 44..58 -> read_044_to_058_current_value_id_Y(S, n - 44)
       [] n = 76 -> Out(read_076_sensor_status_mask_setting(mask))
       [] n = 77 -> Out(read_077_sensor_connected_number(S))
       [] n = 668 -> Out(read_668_error_code_id_00(ie))
       [] n \in 669..683 -> read_669_to_683_error_code_id_Y(S, n - 669)

handle_read(S, ie, mask, query_data) ==
  IF query_data > UnitMaxQuery
  THEN [exc |-> "QueryOutsideValidRangeError", output |-> 0]
  ELSE IF query_data \notin read_mapping
  THEN IF query_data \in write_mapping
       THEN [exc |-> "QueryReadProtectedError", output |-> 0]
       ELSE [exc |-> "InaccessibleIDOrQueryError", output |-> 0]
  ELSE UnitReadHandler(S, ie, mask, query_data)

handle_write(mask, query_data, setting_data) ==
  IF query_data > UnitMaxQuery
  THEN [mask |-> mask, exc |-> "QueryOutsideValidRangeError"]
  ELSE IF query_data \notin write_mapping
  THEN IF query_data \in read_mapping
       THEN [mask |-> mask, exc |-> "QueryWriteProtectedError"]
       ELSE [mask |-> mask, exc |-> "InaccessibleIDOrQueryError"]
  ELSE write_076_sensor_status_mask_setting(mask, setting_data)

----------------------------------------------------------------------------
(* The request grammar: valid_query_regex.fullmatch                      *)
(*   (?:M0|MS|SR,(\d{2}),(\d{3})|SW,(\d{2}),(\d{3}),([+-]\d{9})          *)
(*      |FR,(\d{2}),(\d{3}))\r\n                                         *)
(* compiled without re.ASCII, so \d matches any Unicode decimal digit    *)

AllDigits(s) == \A k \in 1..Len(s) : IsDigit(s[k])

(* XX,(\d{2}),(\d{3}) for the two letters c1 c2 *)
MatchesIdQuery(b, c1, c2) ==
  /\ Len(b) >= 9
  /\ b[1] = c1 /\ b[2] = c2 /\ b[3] = ","
  /\ AllDigits(SubSeq(b, 4, 5)) /\ b[6] = ","
  /\ AllDigits(SubSeq(b, 7, 9))

NoMatch == [matched |-> FALSE, id |-> <<>>, query_data |-> <<>>,
            setting_data |-> <<>>]

fullmatch(line) ==
  LET n == Len(line)
      b == SubSeq(line, 1, n - 2)
  IN IF n < 4 \/ line[n - 1] # CR \/ line[n] # LF THEN NoMatch
     ELSE IF b = <<"M", "0">> \/ b = <<"M", "S">>
     THEN [NoMatch EXCEPT !.matched = TRUE]
     ELSE IF Len(b) = 9
             /\ (MatchesIdQuery(b, "S", "R") \/ MatchesIdQuery(b, "F", "R"))
     THEN [matched |-> TRUE, id |-> SubSeq(b, 4, 5),
           query_data |-> SubSeq(b, 7, 9), setting_data |-> <<>>]
     ELSE IF Len(b) = 20 /\ MatchesIdQuery(b, "S", "W") /\ b[10] = ","
             /\ b[11] \in {"+", "-"} /\ AllDigits(SubSeq(b, 12, 20))
     THEN [matched |-> TRUE, id |-> SubSeq(b, 4, 5),
           query_data |-> SubSeq(b, 7, 9), setting_data |-> SubSeq(b, 11, 20)]
     ELSE NoMatch

----------------------------------------------------------------------------
(* Replies *)

CRLF == <<CR, LF>>
Comma == <<",">>

(* exception class -> CommunicationErrorCodes value; 0 for an exception *)
(* that is not a CommunicationException                                 *)
ErrorCodeOf(exc) ==
  CASE exc = "WriteDataOutsideValidRangeError" -> 9
    [] exc = "NonExecutableStateError" -> 12
    [] exc = "QueryWriteProtectedError" -> 14
    [] exc = "QueryReadProtectedError" -> 16
    [] exc = "QueryOutsideValidRangeError" -> 20
    [] exc = "IDOutsideValidRangeError" -> 22
    [] exc = "InaccessibleIDOrQueryError" -> 31
    [] exc = "GeneralSystemError" -> 254
    [] exc = "CommandFormatError" -> 255
    [] OTHER -> 0

IsCommunicationException(exc) == ErrorCodeOf(exc) # 0

ErrorReply(query, code) ==
  <<"E", "R", ",">> \o query \o Comma \o PadLeft(code, 3) \o CRLF

RECURSIVE JoinValues(_)
(* ','.join over the per-amplifier strings *)
JoinValues(parts) ==
  IF parts = <<>> THEN <<>>
  ELSE IF Len(parts) = 1 THEN parts[1]
  ELSE parts[1] \o Comma \o JoinValues(Tail(parts))

response_M0(S) ==
  <<"M", "0", ",">> \o JoinValues([k \in 1..Len(S) |-> stringified_value(S[k])])
  \o CRLF

response_MS(S) ==
  <<"M", "S", ",">>
  \o JoinValues([k \in 1..Len(S) |->
       stringified_state(S[k]) \o Comma \o stringified_value(S[k])])
  \o CRLF

(* the outcome of a response_XX call: the reply text, or the exception *)
Replied(text) == [exc |-> "none", reply |-> text]
Raised(exc) == [exc |-> exc, reply |-> <<>>]

(* the one register whose handler returns a str (isinstance(output, str)) *)
ProductNameQuery == 200

(* variant: the data field loses its first character (the sign) *)
FormatRead_unsigned(id, query_data, output) ==
  <<"S", "R", ",">> \o PadLeft(id, 2) \o Comma \o PadLeft(query_data, 3)
  \o Comma \o Tail(output) \o CRLF

FormatRead(id, query_data, output) ==
  <<"S", "R", ",">> \o PadLeft(id, 2) \o Comma \o PadLeft(query_data, 3)
  \o Comma \o output \o CRLF

(* the tail of response_SR: r is what the register read gave *)
AnswerRead(id, query_data, r) ==
  IF r.exc # "none" THEN Raised(r.exc)
  ELSE IF id # 0 /\ query_data = ProductNameQuery
  THEN Replied(FormatRead(id, query_data, r.output))
  ELSE Replied(FormatRead(id, query_data, Signed10(r.output)))

RouteRead(S, ie, mask, id, query_data) ==
  AnswerRead(id, query_data,
    IF id = 0 THEN handle_read(S, ie, mask, query_data)
    ELSE IF id > Len(S)
    THEN [exc |-> "IDOutsideValidRangeError", output |-> 0]
    ELSE sensor_handle_read(S[id], query_data))

response_SR(S, ie, mask, id_text, query_text) ==
  RouteRead(S, ie, mask, ParseInt(id_text), ParseInt(query_text))

(* the state a command leaves behind together with its outcome *)
Outcome(S, mask, r) == [S |-> S, mask |-> mask, exc |-> r.exc, reply |-> r.reply]

FormatWrite(id, query_data) ==
  <<"S", "W", ",">> \o PadLeft(id, 2) \o Comma \o PadLeft(query_data, 3)
  \o CRLF

(* the tail of response_SW: w is what the register write left and raised *)
AnswerWrite(id, query_data, w) ==
  [S |-> w.S, mask |-> w.mask, exc |-> w.exc,
   reply |-> IF w.exc # "none" THEN <<>> ELSE FormatWrite(id, query_data)]

UnitWrite(S, w) == [S |-> S, mask |-> w.mask, exc |-> w.exc]
SensorWrite(mask, w) == [S |-> w.S, mask |-> mask, exc |-> w.exc]

(* response_SW indexing connected_sensors[id] instead of [id - 1]: a *)
(* faulty routing                                                    *)
RouteWrite_zero_based(S, mask, id, query_data, setting_data, t) ==
  AnswerWrite(id, query_data,
    IF id = 0
    THEN UnitWrite(S, handle_write(mask, query_data, setting_data))
    ELSE IF id + 1 > Len(S)
    THEN [S |-> S, mask |-> mask, exc |-> "IDOutsideValidRangeError"]
    ELSE SensorWrite(mask,
           sensor_handle_write(S, id + 1, query_data, setting_data, t)))

RouteWrite(S, mask, id, query_data, setting_data, t) ==
  AnswerWrite(id, query_data,
    IF id = 0
    THEN UnitWrite(S, handle_write(mask, query_data, setting_data))
    ELSE IF id > Len(S)
    THEN [S |-> S, mask |-> mask, exc |-> "IDOutsideValidRangeError"]
    ELSE SensorWrite(mask,
           sensor_handle_write(S, id, query_data, setting_data, t)))

response_SW(S, mask, id_text, query_text, setting_text, t) ==
  RouteWrite(S, mask, ParseInt(id_text), ParseInt(query_text),
             ParseInt(setting_text), t)

response_FR(S, id_text, query_text) ==
  LET id == ParseInt(id_text)
      query_data == ParseInt(query_text)
  IN IF id = 0 \/ id > Len(S) THEN Raised("IDOutsideValidRangeError")
     ELSE Replied(<<"F", "R", ",">> \o PadLeft(id, 2) \o Comma
                  \o PadLeft(query_data, 3) \o Comma
                  \o Signed10(S[id].decimal_position) \o CRLF)

(* the noise added twice: a faulty uncertainty step *)
AddNoise_doubled(S, i, noise) ==
  set_raw_value(S, i, Some(Val(S[i].raw_value) + 2 * noise))

(* raw_value + uniform(-uncertainty, uncertainty), noise being the draw *)
AddNoise(S, i, noise) ==
  set_raw_value(S, i, Some(Val(S[i].raw_value) + noise))

(* SensorUnit.apply_uncertainty: rnd is the draw of randomize_value *)
apply_uncertainty(S, i, rnd, noise) ==
  IF IsNone(S[i].raw_value) THEN S
  ELSE AddNoise(IF S[i].randomized THEN set_raw_value(S, i, Some(rnd)) ELSE S,
                i, noise)

RECURSIVE ApplyFrom(_, _, _, _)
ApplyFrom(S, i, rnd, noise) ==
  IF i > Len(S) THEN S
  ELSE ApplyFrom(apply_uncertainty(S, i, rnd[i], noise[i]), i + 1, rnd, noise)

(* CommunicationUnit.apply_sensor_uncertainty, with one draw per amplifier *)
apply_sensor_uncertainty(S, rnd, noise) == ApplyFrom(S, 1, rnd, noise)

(* M0 and MS once the uncertainty has been applied: S1 is the list after it *)
Measured(S1, mask, query) ==
  Outcome(S1, mask,
    Replied(IF query = <<"M", "0">> THEN response_M0(S1) ELSE response_MS(S1)))

(* response applying the uncertainty step for SR as well: a faulty variant *)
response_noise_on_SR(S, ie, mask, query, m, rnd, noise, t) ==
  IF query = <<"M", "0">> \/ query = <<"M", "S">>
  THEN Measured(apply_sensor_uncertainty(S, rnd, noise), mask, query)
  ELSE IF query = <<"S", "R">>
  THEN Outcome(apply_sensor_uncertainty(S, rnd, noise), mask,
               response_SR(S, ie, mask, m.id, m.query_data))
  ELSE IF query = <<"S", "W">>
  THEN response_SW(S, mask, m.id, m.query_data, m.setting_data, t)
  ELSE Outcome(S, mask, response_FR(S, m.id, m.query_data))

response(S, ie, mask, query, m, rnd, noise, t) ==
  IF query = <<"M", "0">> \/ query = <<"M", "S">>
  THEN Measured(apply_sensor_uncertainty(S, rnd, noise), mask, query)
  ELSE IF query = <<"S", "R">>
  THEN Outcome(S, mask, response_SR(S, ie, mask, m.id, m.query_data))
  ELSE IF query = <<"S", "W">>
  THEN response_SW(S, mask, m.id, m.query_data, m.setting_data, t)
  ELSE Outcome(S, mask, response_FR(S, m.id, m.query_data))

(* the try/except of handle_query around response: r is its outcome. A   *)
(* CommunicationException becomes an ER reply, any other exception leaves *)
(* handle_query.                                                          *)
Answer(query, r) ==
  IF r.exc # "none" /\ IsCommunicationException(r.exc)
  THEN [r EXCEPT !.exc = "none",
                 !.reply = ErrorReply(query, ErrorCodeOf(r.exc))]
  ELSE r

(* handle_query without the test of internal_error: a faulty variant *)
handle_query_ignoring_internal_error(S, ie, mask, raw_query, rnd, noise, t) ==
  LET query == SubSeq(raw_query, 1, Min(2, Len(raw_query)))
  IN IF \E k \in 1..Len(raw_query) : raw_query[k] = InvalidByte
     THEN Outcome(S, mask, Raised("UnicodeDecodeError"))
     ELSE IF ~fullmatch(raw_query).matched
     THEN Outcome(S, mask, Replied(ErrorReply(query, 255)))
     ELSE Answer(query, response(S, ie, mask, query, fullmatch(raw_query),
                                 rnd, noise, t))

(* CommunicationUnit.handle_query. The outcome's reply is the returned  *)
(* line; exc is the exception that left handle_query ("none" if it      *)
(* returned), in which case nothing is returned.                        *)
handle_query(S, ie, mask, raw_query, rnd, noise, t) ==
  LET query == SubSeq(raw_query, 1, Min(2, Len(raw_query)))
  IN IF \E k \in 1..Len(raw_query) : raw_query[k] = InvalidByte
     THEN Outcome(S, mask, Raised("UnicodeDecodeError"))
     ELSE IF ~fullmatch(raw_query).matched
     THEN Outcome(S, mask, Replied(ErrorReply(query, 255)))
     ELSE IF ie # DLEN1_NO_ERROR
     THEN Outcome(S, mask, Replied(ErrorReply(query, 254)))
     ELSE Answer(query, response(S, ie, mask, query, fullmatch(raw_query),
                                 rnd, noise, t))

(* variant: only the second amplifier loses is_main_unit *)
assign_main_unit_second_only(S) ==
  IF Len(S) = 0 THEN S
  ELSE IF Len(S) = 1 THEN [S EXCEPT ![1].is_main_unit = TRUE]
  ELSE [k \in 1..Len(S) |->
          IF k = 1 THEN [S[1] EXCEPT !.is_main_unit = TRUE,
                                     !.connected_amplifier = 2]
          ELSE IF k = 2 THEN [S[2] EXCEPT !.is_main_unit = FALSE,
                                          !.connected_amplifier = 1]
          ELSE S[k]]

(* CommunicationUnit.assign_main_unit *)
assign_main_unit(S) ==
  IF Len(S) = 0 THEN S
  ELSE IF Len(S) = 1 THEN [S EXCEPT ![1].is_main_unit = TRUE]
  ELSE [k \in 1..Len(S) |->
          IF k = 1 THEN [S[1] EXCEPT !.is_main_unit = TRUE,
                                     !.connected_amplifier = 2]
          ELSE IF k = 2 THEN [S[2] EXCEPT !.is_main_unit = FALSE,
                                          !.connected_amplifier = 1]
          ELSE [S[k] EXCEPT !.is_main_unit = FALSE]]

(* CommunicationUnit.add_unit *)
add_unit(S, unit) == assign_main_unit(Append(S, unit))

(* CommunicationUnit.add_multiple_units *)
add_multiple_units(S, units) == assign_main_unit(S \o units)

(* SensorUnit.set_error *)
set_error(a, code) == [a EXCEPT !.internal_error = code]

----------------------------------------------------------------------------
(* Inputs *)

M0Line == <<"M", "0">> \o CRLF
MSLine == <<"M", "S">> \o CRLF
SRLine(id, n) ==
  <<"S", "R", ",">> \o PadLeft(id, 2) \o Comma \o PadLeft(n, 3) \o CRLF
FRLine(id, n) ==
  <<"F", "R", ",">> \o PadLeft(id, 2) \o Comma \o PadLeft(n, 3) \o CRLF
SWLine(id, n, v) ==
  <<"S", "W", ",">> \o PadLeft(id, 2) \o Comma \o PadLeft(n, 3) \o Comma
  \o Signed10(v) \o CRLF

(* the sensor heads an amplifier is built for (FACTORY_MAPPING) *)
HeadChoices == {create_IL_030}

(* amplifier ids probed register by register, and ids probed for routing *)
ProbeIds == {1, 2}
RoutingIds == {0, 1, 2, 3, 4, 16, 99}

(* amplifier register numbers: the whole index space and above it *)
ProbeQueries == (0..225) \cup {500, 999}

(* communication-unit register numbers *)
UnitQueries ==
  {0, 1, 2, 3, 4, 8, 9, 10, 11, 16, 17, 18, 19, 20, 38, 39, 40, 44, 45, 46,
   58, 59, 76, 77, 78, 668, 669, 670, 683, 684, 999}

(* values written: both sides of the registers' domain limits *)
ProbeValues == {-100000, -1, 1, 2, 5}

(* values written to the bank registers 065..084: three decimals whose *)
(* float product with 10**3 falls below the integer, and the range end *)
BankValues == {-1001, 1001, WireMax}

(* lines that are not in the grammar, or are in it only for the regex *)
OddLines ==
  { <<>>,
    CRLF,
    <<"A", LF>>,
    <<"M", "0">>,
    <<"M", "0", LF>>,
    <<"M", "0", " ">> \o CRLF,
    <<"m", "0">> \o CRLF,
    <<"M", "0">> \o CRLF \o CRLF,
    <<"M", "1">> \o CRLF,
    <<"S", "R", ",", "1", ",", "0", "3", "7">> \o CRLF,
    <<"S", "R", ",", "0", "1", ",", "3", "7">> \o CRLF,
    <<"S", "R", ",", "0", "1", ",", "0", "0", "3", "7">> \o CRLF,
    <<"S", "R", ",", " ", "1", ",", "0", "3", "7">> \o CRLF,
    <<"s", "r", ",", "0", "1", ",", "0", "3", "7">> \o CRLF,
    <<"S", "R", ",", "0", "1", ",", "0", "3", "7">>,
    <<"S", "R", ",", "0", "1", ",", "0", "3", "7", ",", "+", "0", "0", "0",
      "0", "0", "0", "0", "0", "1">> \o CRLF,
    <<"S", "W", ",", "0", "1", ",", "0", "9", "7">> \o CRLF,
    <<"S", "W", ",", "0", "1", ",", "0", "9", "7", ",", "0", "0", "0", "0",
      "0", "0", "0", "0", "0", "1">> \o CRLF,
    <<"S", "W", ",", "0", "1", ",", "0", "9", "7", ",", "+", "1">> \o CRLF,
    <<"F", "R", ",", "0", "1">> \o CRLF,
    <<"X", "R", ",", "0", "1", ",", "0", "3", "7">> \o CRLF,
    <<"S", "R", ",", "0", UnicodeDigitOne, ",", "0", "3", "7">> \o CRLF,
    <<"S", "W", ",", "0", "1", ",", "0", "9", "7", ",", "+", "0", "0", "0",
      "0", "0", "0", "0", "0", UnicodeDigitOne>> \o CRLF,
    <<InvalidByte>> \o CRLF,
    <<"M", "0", InvalidByte>> \o CRLF }

(* every line tried on the bus *)
ProbeLines ==
  {M0Line, MSLine}
  \cup {SRLine(0, n) : n \in UnitQueries}
  \cup {SWLine(0, n, 1) : n \in UnitQueries}
  \cup {SWLine(0, 76, v) : v \in {-1, 0, 2}}
  \cup {SRLine(id, n) : id \in ProbeIds, n \in ProbeQueries}
  \cup {SWLine(id, n, v) :
          id \in ProbeIds, n \in sensor_write_mapping, v \in ProbeValues}
  \cup {SWLine(id, n, v) :
          id \in ProbeIds, n \in BankRegisters, v \in BankValues}
  \cup {SWLine(id, n, 1) :
          id \in ProbeIds, n \in ProbeQueries \ sensor_write_mapping}
  \cup {SRLine(id, n) : id \in RoutingIds, n \in {0, 37, 500}}
  \cup {SWLine(id, n, v) :
          id \in RoutingIds, n \in {1, 37, 97, 500}, v \in {0, 1}}
  \cup {FRLine(id, n) : id \in RoutingIds, n \in {0, 37, 999}}
  \cup OddLines

(* the requests that set a bus up before it is probed *)
DriverLines ==
  { SWLine(1, 19, 1),     \* calibration, first point
    SWLine(1, 107, 1),    \* calibration: use the user's settings
    SWLine(1, 129, 1),    \* calculation mode: addition
    SWLine(1, 136, 1) }   \* hold function: peak hold

(* draws of uniform(-uncertainty, uncertainty) and of randomize_value *)
NoiseChoices(a) == {-a.uncertainty, 0, SubUnit \div 2, a.uncertainty}
RandomChoices(a) ==
  IF a.randomized THEN {a.randomized_lower_limit, a.randomized_upper_limit}
  ELSE {a.randomized_lower_limit}

(* raw values the simulation feeds an amplifier: absent, or 1234 wire units *)
RawChoices == {None, Some(1234 * SubUnit)}

ErrorChoices == {IL_Sensor_Head}

(* the batches handed to add_multiple_units: up to MaxBatch amplifiers *)
MaxBatch == 3
UnitBatches ==
  UNION {[1..n -> HeadChoices] : n \in 0..MaxBatch}

(* bus composition on its own: the largest bus built, and the requests *)
(* that probe which ids address an amplifier                           *)
MaxBus == 16
BusIds == {1, 2, 3, 15, 16, 17, 99}
BusLines ==
  {SRLine(id, 37) : id \in BusIds} \cup {SWLine(id, 97, 1) : id \in BusIds}

----------------------------------------------------------------------------
(* The state machine *)

Init ==
  /\ connected_sensors = <<>>
  /\ internal_error = DLEN1_NO_ERROR
  /\ mask_sensor_status = FALSE
  /\ now = StartTime
  /\ op = "init"
  /\ request = <<>>
  /\ reply = <<>>
  /\ raised = "none"
  /\ steps = 0

(* load_config: communication_unit.add_unit(factory()) per configured sensor, *)
(* before the server takes its first request                                  *)
AddUnit(kw, cap) ==
  /\ steps = 0
  /\ Len(connected_sensors) < cap
  /\ connected_sensors' = add_unit(connected_sensors, SensorUnit(kw, now))
  /\ op' = "add_unit"
  /\ UNCHANGED <<internal_error, mask_sensor_status, now, request, reply,
                 raised, steps>>

(* add_multiple_units with newly constructed amplifiers of the heads kws *)
AddMultipleUnits(kws, cap) ==
  /\ steps = 0
  /\ Len(connected_sensors) + Len(kws) <= cap
  /\ connected_sensors' =
       add_multiple_units(connected_sensors,
                          [k \in 1..Len(kws) |-> SensorUnit(kws[k], now)])
  /\ op' = "add_multiple_units"
  /\ UNCHANGED <<internal_error, mask_sensor_status, now, request, reply,
                 raised, steps>>

(* the draws handed to one call: apply_sensor_uncertainty consumes them only *)
(* for M0 and MS, so every other line is tried with one (non-zero) draw      *)
NoiseDraws(S, line) ==
  IF line \in {M0Line, MSLine}
  THEN {f \in [1..Len(S) -> UNION {NoiseChoices(S[k]) : k \in 1..Len(S)}] :
          \A k \in 1..Len(S) : f[k] \in NoiseChoices(S[k])}
  ELSE {[k \in 1..Len(S) |-> S[k].uncertainty]}

RandomDraws(S) ==
  {f \in [1..Len(S) -> UNION {RandomChoices(S[k]) : k \in 1..Len(S)}] :
     \A k \in 1..Len(S) : f[k] \in RandomChoices(S[k])}

(* the handlers that call start_eeprom_write twice (change_high_threshold *)
(* and change_low_threshold): the second call assigns OPERATING again    *)
TwiceArmingRegisters == {14, 26, 28}

(* the outcomes of the unlocked assignment in start_eeprom_write: S is the *)
(* bus before the request, S1 after it. The request can be overtaken when  *)
(* it set a new deadline for an amplifier whose earlier deadline had       *)
(* elapsed without a pass of _eeprom_thread since.                         *)
EepromRaces(S, S1, line, t) ==
  {S1} \cup
  { [S1 EXCEPT ![k] = Overtaken(S[k], S1[k], t)] :
      k \in { j \in 1..Len(S) :
                /\ IsNumber(S[j].next_eeprom_write)
                /\ Val(S[j].next_eeprom_write) <= t
                /\ S1[j].next_eeprom_write # S[j].next_eeprom_write
                /\ fullmatch(line).setting_data # <<>>
                /\ j = ParseInt(fullmatch(line).id)
                /\ ParseInt(fullmatch(line).query_data)
                     \notin TwiceArmingRegisters } }

(* handle_query(line) and what it leaves on the bus and on the wire *)
Serve(line) ==
  /\ \E rnd \in RandomDraws(connected_sensors),
        noise \in NoiseDraws(connected_sensors, line) :
       \E r \in {handle_query(connected_sensors, internal_error,
                              mask_sensor_status, line, rnd, noise, now)} :
          /\ connected_sensors'
               \in EepromRaces(connected_sensors, r.S, line, now)
          /\ mask_sensor_status' = r.mask
          /\ reply' = r.reply
          /\ raised' = r.exc
  /\ request' = line
  /\ op' = "handle_query"
  /\ UNCHANGED <<internal_error, now>>

(* one call of handle_query with the line the connection delivered. A *)
(* run makes set-up requests (last = FALSE) and closes with one request *)
(* of any kind.                                                         *)
HandleQuery(line, last) ==
  /\ steps < MaxSteps
  /\ last \/ (line \in DriverLines /\ steps < MaxSteps - 1)
  /\ Serve(line)
  /\ steps' = IF last THEN MaxSteps ELSE steps + 1

(* DLEN1TCPHandler.handle: a line arrives and is passed to handle_query *)
Handle ==
  /\ steps < MaxSteps
  /\ \E line \in ProbeLines, last \in BOOLEAN : HandleQuery(line, last)

(* raw_value.setter: the simulation supplies a measurement *)
SetRawValue(i, value) ==
  /\ steps < MaxSteps - 1
  /\ i \in 1..Len(connected_sensors)
  /\ connected_sensors' = set_raw_value(connected_sensors, i, value)
  /\ op' = "set_raw_value"
  /\ steps' = steps + 1
  /\ UNCHANGED <<internal_error, mask_sensor_status, now, request, reply,
                 raised>>

SetError(i, code) ==
  /\ steps < MaxSteps - 1
  /\ i \in 1..Len(connected_sensors)
  /\ connected_sensors' =
       [connected_sensors EXCEPT ![i] = set_error(@, code)]
  /\ op' = "set_error"
  /\ steps' = steps + 1
  /\ UNCHANGED <<internal_error, mask_sensor_status, now, request, reply,
                 raised>>

(* the attribute CommunicationUnit.internal_error is assigned a DLEN1Error *)
SetInternalError(code) ==
  /\ steps < MaxSteps - 1
  /\ internal_error' = code
  /\ op' = "set_internal_error"
  /\ steps' = steps + 1
  /\ UNCHANGED <<connected_sensors, mask_sensor_status, now, request, reply,
                 raised>>

(* the latest deadline of the EEPROM scheduler on the bus, 0 if none *)
LatestDeadline(S) ==
  LET pending == {Val(S[k].next_eeprom_write) :
                    k \in {j \in 1..Len(S) : IsNumber(S[j].next_eeprom_write)}}
  IN IF pending = {} THEN 0
     ELSE CHOOSE d \in pending : \A e \in pending : e <= d

(* the closing requests after which the run is watched until the EEPROM *)
(* scheduler has come to rest: a setting write and the initial reset    *)
ObservedLines == {SWLine(1, 97, 1), SWLine(1, 5, 1)}

(* time.time() advances while no request is served. Only a pending     *)
(* deadline reads the clock: between requests the clock is moved to    *)
(* the latest deadline in one step, after an observed closing request  *)
(* it advances second by second up to the latest deadline.             *)
Tick ==
  /\ steps # MaxSteps - 1
  /\ steps = MaxSteps => request \in ObservedLines
  /\ now < LatestDeadline(connected_sensors)
  /\ now' = IF steps = MaxSteps THEN now + 1
            ELSE LatestDeadline(connected_sensors)
  /\ steps' = IF steps = MaxSteps THEN steps ELSE steps + 1
  /\ op' = "tick"
  /\ UNCHANGED <<connected_sensors, internal_error, mask_sensor_status,
                 request, reply, raised>>

(* _eeprom_thread of amplifier i: a pass of perform_eeprom_writes that *)
(* finds the deadline elapsed (any other pass changes nothing)         *)
EepromThread(i) ==
  /\ i \in 1..Len(connected_sensors)
  /\ steps # MaxSteps - 1
  /\ steps = MaxSteps => request \in ObservedLines
  /\ connected_sensors[i].keep_threads_alive
  /\ perform_eeprom_writes(connected_sensors[i], now) # connected_sensors[i]
  /\ connected_sensors' =
       [connected_sensors EXCEPT ![i] = perform_eeprom_writes(@, now)]
  /\ steps' = IF steps = MaxSteps THEN steps ELSE steps + 1
  /\ op' = "perform_eeprom_writes"
  /\ UNCHANGED <<internal_error, mask_sensor_status, now, request, reply,
                 raised>>

Next ==
  \/ \E kw \in HeadChoices : AddUnit(kw, MaxSensors)
  \/ \E kws \in UnitBatches : AddMultipleUnits(kws, MaxSensors)
  \/ Handle
  \/ Tick
  \/ \E i \in 1..MaxSensors : EepromThread(i)
  \/ \E i \in 1..MaxSensors, value \in RawChoices : SetRawValue(i, value)
  \/ \E i \in 1..MaxSensors, code \in ErrorChoices : SetError(i, code)
  \/ \E code \in {DLEN1_ERROR_051} : SetInternalError(code)

Spec == Init /\ [][Next]_vars

(* a request that probes the routing of a composed bus *)
Route ==
  /\ steps < MaxSteps
  /\ \E line \in BusLines : HandleQuery(line, TRUE)

(* bus composition: any sequence of add_unit and add_multiple_units up *)
(* to MaxBus amplifiers, closed by one routing request                 *)
BusNext ==
  \/ \E kw \in HeadChoices : AddUnit(kw, MaxBus)
  \/ \E kws \in UnitBatches : AddMultipleUnits(kws, MaxBus)
  \/ Route

BusSpec == Init /\ [][BusNext]_vars

(* what the judgment value is read from: a first measurement at, above *)
(* or below the wire range, an amplifier error, the laser switched off *)
JudgeRaw ==
  {Some(WireMax * SubUnit), Some((WireMax + 1) * SubUnit),
   Some((-(WireMax + 1)) * SubUnit)}
JudgeErrors == {IL_EEPROM, IL_Sensor_Head}
JudgeLines == {M0Line, MSLine} \cup {SRLine(0, n) : n \in 44..58}

Supply(i, value) ==
  /\ steps < MaxSteps
  /\ i \in 1..Len(connected_sensors)
  /\ connected_sensors' = set_raw_value(connected_sensors, i, value)
  /\ op' = "set_raw_value"
  /\ steps' = steps + 1
  /\ UNCHANGED <<internal_error, mask_sensor_status, now, request, reply,
                 raised>>

Fail(i, code) ==
  /\ steps < MaxSteps
  /\ i \in 1..Len(connected_sensors)
  /\ connected_sensors' =
       [connected_sensors EXCEPT ![i] = set_error(@, code)]
  /\ op' = "set_error"
  /\ steps' = steps + 1
  /\ UNCHANGED <<internal_error, mask_sensor_status, now, request, reply,
                 raised>>

(* SW,<i>,100,+000000001: laser emission stop *)
StopLaser(i) ==
  /\ steps < MaxSteps
  /\ i \in 1..Len(connected_sensors)
  /\ Serve(SWLine(i, 100, 1))
  /\ steps' = steps + 1

(* the request that reads the judgment values closes the run *)
Judge ==
  /\ steps <= MaxSteps
  /\ connected_sensors # <<>>
  /\ \E line \in JudgeLines : Serve(line)
  /\ steps' = MaxSteps + 1

(* up to MaxSteps changes of what the judgment value depends on, then *)
(* one request reading it                                             *)
JudgeNext ==
  \/ \E kw \in HeadChoices : AddUnit(kw, MaxSensors)
  \/ \E i \in 1..MaxSensors, value \in JudgeRaw : Supply(i, value)
  \/ \E i \in 1..MaxSensors, code \in JudgeErrors : Fail(i, code)
  \/ \E i \in 1..MaxSensors : StopLaser(i)
  \/ Judge

JudgeSpec == Init /\ [][JudgeNext]_vars

(* The scenarios below run at steps = 0 and leave the step count alone: *)
(* their inputs are drawn from finite sets and the clock stands still,  *)
(* so every sequence of their operations is explored.                   *)

(* raw_value.setter with a value of the set values *)
Feed(i, value) ==
  /\ steps = 0
  /\ i \in 1..Len(connected_sensors)
  /\ connected_sensors' = set_raw_value(connected_sensors, i, value)
  /\ op' = "set_raw_value"
  /\ UNCHANGED <<internal_error, mask_sensor_status, now, request, reply,
                 raised, steps>>

(* handle_query with the line the connection delivered *)
Ask(line) ==
  /\ steps = 0
  /\ Serve(line)
  /\ UNCHANGED steps

(* SensorUnit.handle_write(query_data, setting_data) on amplifier i, as *)
(* the write of an SW request calls it                                 *)
Write(i, query_data, setting_data) ==
  /\ steps = 0
  /\ i \in 1..Len(connected_sensors)
  /\ \E r \in {sensor_handle_write(connected_sensors, i, query_data,
                                    setting_data, now)} :
       /\ connected_sensors' = r.S
       /\ raised' = r.exc
  /\ op' = "handle_write"
  /\ UNCHANGED <<internal_error, mask_sensor_status, now, request, reply,
                 steps>>

(* the calculation of the main unit: the calculation mode is written, *)
(* the raw value of any amplifier is assigned or taken away           *)
CalcRaw == {None, Some(1000 * SubUnit), Some(2000 * SubUnit)}
CalcLines == {SWLine(1, 129, v) : v \in 0..2}

CalcNext ==
  \/ \E kw \in HeadChoices : AddUnit(kw, MaxSensors)
  \/ \E line \in CalcLines : Ask(line)
  \/ \E i \in 1..MaxSensors, value \in CalcRaw : Feed(i, value)

CalcSpec == Init /\ [][CalcNext]_vars

(* an assignment of the attribute external_input_3: the level of the *)
(* external line                                                     *)
SetExternalInput(i, value) ==
  /\ steps = 0
  /\ i \in 1..Len(connected_sensors)
  /\ connected_sensors[i].external_input_3 # value
  /\ connected_sensors' = [connected_sensors EXCEPT ![i].external_input_3 = value]
  /\ op' = "set_external_input"
  /\ UNCHANGED <<internal_error, mask_sensor_status, now, request, reply,
                 raised, steps>>

(* _input_thread of amplifier i: a pass of perform_input_updates that *)
(* finds the timing input changed (any other pass changes nothing)    *)
InputThread(i) ==
  /\ steps = 0
  /\ i \in 1..Len(connected_sensors)
  /\ connected_sensors[i].keep_threads_alive
  /\ update_timing_input_status(connected_sensors[i]) # connected_sensors[i]
  /\ connected_sensors' =
       [connected_sensors EXCEPT ![i] = update_timing_input_status(@)]
  /\ op' = "perform_input_updates"
  /\ UNCHANGED <<internal_error, mask_sensor_status, now, request, reply,
                 raised, steps>>

(* the bus is composed before its amplifiers are operated *)
Compose ==
  /\ op \in {"init", "add_unit"}
  /\ \E kw \in HeadChoices : AddUnit(kw, MaxSensors)

(* the amplifier whose hold function is exercised: the one added last *)
Held == Len(connected_sensors)

(* the hold functions driven by the timing input: the hold function and *)
(* the edge setting are written, the timing input is written and the    *)
(* external line moves, raw values arrive                               *)
TimedWrites ==
  {<<136, v>> : v \in {SAMPLE_HOLD, PEAK_HOLD, BOTTOM_HOLD,
                       PEAK_TO_PEAK_HOLD}}
  \cup {<<138, v>> : v \in {0, 1}}
  \cup {<<99, v>> : v \in {0, 1}}

TimedNext ==
  \/ Compose
  \/ \E w \in TimedWrites : Write(Held, w[1], w[2])
  \/ \E value \in CalcRaw : Feed(Held, value)
  \/ \E value \in BOOLEAN : SetExternalInput(Held, value)
  \/ InputThread(Held)

TimedSpec == Init /\ [][TimedNext]_vars

(* the hold functions with an automatic trigger: the hold function, the *)
(* trigger level (1.500) and the hysteresis (0.400) are written, the    *)
(* timing input is written, raw values below, between, at and above the *)
(* levels arrive                                                        *)
AutoWrites ==
  {<<136, v>> : v \in {AUTO_PEAK_HOLD, AUTO_BOTTOM_HOLD}}
  \cup {<<137, 1500>>, <<141, 400>>}
  \cup {<<99, v>> : v \in {0, 1}}

AutoRaw ==
  {None} \cup {Some(v * SubUnit) : v \in {1000, 1300, 1500, 1700, 2000}}

AutoNext ==
  \/ Compose
  \/ \E w \in AutoWrites : Write(Held, w[1], w[2])
  \/ \E value \in AutoRaw : Feed(Held, value)

AutoSpec == Init /\ [][AutoNext]_vars

(* The timing_input setter takes no lock. write_099 runs it on the        *)
(* request handler's thread while perform_input_updates runs it on        *)
(* _input_thread, so the statements of the two executions interleave.     *)
(* One execution has the locals value, positive_edge and negative_edge;   *)
(* pc counts its statements: 0 the assignments of write_099 before the    *)
(* call, 1 the argument of update_timing_input_status, 2 the edge flags,  *)
(* 3 the assignment to _timing_input, 4 the first and 5 the second        *)
(* conditional of the hold mode.                                          *)
TimingDone == 6

TimingLocals(first) ==
  [pc |-> first, value |-> FALSE, positive_edge |-> FALSE,
   negative_edge |-> FALSE]

TimingStatement(a, l, v, t) ==
  LET timed == a.hold_function_setting
                 \in {PEAK_HOLD, BOTTOM_HOLD, PEAK_TO_PEAK_HOLD}
      next == [l EXCEPT !.pc = l.pc + 1]
  IN CASE l.pc = 0 ->
            [a |-> start_eeprom_write(
                     [a EXCEPT !.stored_timing_input = (v = 1)], t, 2),
             l |-> next]
       [] l.pc = 1 ->
            [a |-> a,
             l |-> [next EXCEPT !.value =
                      ((a.external_input_3_setting = 0
                         \/ ~a.external_input_use_user_settings)
                        /\ a.external_input_3)
                      \/ a.stored_timing_input]]
       [] l.pc = 2 ->
            [a |-> a,
             l |-> [next EXCEPT
                      !.positive_edge = (l.value # a.timing_input) /\ l.value,
                      !.negative_edge =
                        (l.value # a.timing_input) /\ ~l.value]]
       [] l.pc = 3 ->
            [a |-> [a EXCEPT !.timing_input = l.value], l |-> next]
       [] l.pc = 4 ->
            [a |-> IF a.hold_function_setting = SAMPLE_HOLD
                   THEN IF a.timing_input_on_edge /\ l.positive_edge
                        THEN [a EXCEPT !.p_v_value = a.calc_value]
                        ELSE a
                   ELSE IF timed /\ l.positive_edge
                   THEN [a EXCEPT !.currently_sampling = FALSE,
                                  !.error_during_sampling = FALSE,
                                  !.p_v_value = a.hold_value]
                   ELSE a,
             l |-> next]
       [] OTHER ->
            [a |-> IF timed /\ (l.positive_edge \/ l.negative_edge)
                      /\ (a.timing_input_on_edge \/ l.negative_edge)
                   THEN [ClearHold(a) EXCEPT !.currently_sampling = TRUE]
                   ELSE a,
             l |-> next]

(* the configurations one statement of either thread later *)
TimingStep(c, v, t) ==
  {[a |-> r.a, handler |-> r.l, observer |-> c.observer] :
     r \in IF c.handler.pc < TimingDone
           THEN {TimingStatement(c.a, c.handler, v, t)} ELSE {}}
  \cup
  {[a |-> r.a, handler |-> c.handler, observer |-> r.l] :
     r \in IF c.observer.pc < TimingDone
           THEN {TimingStatement(c.a, c.observer, v, t)} ELSE {}}

RECURSIVE Interleave(_, _, _, _)
Interleave(C, n, v, t) ==
  IF n = 0 THEN C
  ELSE Interleave(UNION {TimingStep(c, v, t) : c \in C}, n - 1, v, t)

(* the amplifier after write_099 and one pass of the input thread have    *)
(* run side by side: every interleaving of their statements               *)
TimingRaces(a, v, t) ==
  {c.a : c \in Interleave({[a |-> a, handler |-> TimingLocals(0),
                            observer |-> TimingLocals(1)]},
                          2 * TimingDone - 1, v, t)}

(* SW on register 099 served while _input_thread is running *)
ConcurrentWrite(i, v) ==
  /\ steps = 0
  /\ i \in 1..Len(connected_sensors)
  /\ connected_sensors[i].keep_threads_alive
  /\ \E b \in TimingRaces(connected_sensors[i], v, now) :
       connected_sensors' = [connected_sensors EXCEPT ![i] = b]
  /\ raised' = "none"
  /\ op' = "write_099"
  /\ UNCHANGED <<internal_error, mask_sensor_status, now, request, reply,
                 steps>>

RaceWrites ==
  {<<136, v>> : v \in {SAMPLE_HOLD, PEAK_HOLD}}
  \cup {<<138, v>> : v \in {0, 1}}

RaceNext ==
  \/ Compose
  \/ \E w \in RaceWrites : Write(Held, w[1], w[2])
  \/ \E value \in CalcRaw : Feed(Held, value)
  \/ \E v \in {0, 1} : ConcurrentWrite(Held, v)
  \/ InputThread(Held)

RaceSpec == Init /\ [][RaceNext]_vars

(* response_MS reads stringified_state and then stringified_value of     *)
(* each amplifier without a lock while the amplifier's _input_thread     *)
(* runs. at[k] places the pass of amplifier k's thread that changes the  *)
(* amplifier: 0 not during the reading, 1 before the state field is      *)
(* read, 2 between the state field and the value field.                  *)
Moments(S) ==
  {at \in [1..Len(S) -> 0..2] :
     \A k \in 1..Len(S) :
       at[k] # 0 => /\ S[k].keep_threads_alive
                    /\ update_timing_input_status(S[k]) # S[k]}

response_MS_during(S, at) ==
  <<"M", "S", ",">>
  \o JoinValues([k \in 1..Len(S) |->
       stringified_state(IF at[k] = 1
                         THEN update_timing_input_status(S[k]) ELSE S[k])
       \o Comma
       \o stringified_value(IF at[k] = 0
                            THEN S[k] ELSE update_timing_input_status(S[k]))])
  \o CRLF

(* raw values on both sides of the HIGH threshold of 5 mm *)
SnapshotRaw == {Some(1000 * SubUnit), Some(6000 * SubUnit)}

(* the draws of uniform(-uncertainty, uncertainty) of one MS: noise on   *)
(* the amplifier whose hold function is exercised                        *)
SnapshotNoise(S) ==
  {[k \in 1..Len(S) |-> IF k = Len(S) THEN d ELSE 0] :
     d \in {0, S[Len(S)].uncertainty}}

(* MS served by handle_query while the input threads are running: the   *)
(* uncertainty is applied, then response_MS reads the amplifiers. The    *)
(* noise accumulates in raw_value, so MS is served on a raw value that   *)
(* the simulation assigned.                                              *)
ConcurrentMS ==
  /\ steps = 0
  /\ internal_error = DLEN1_NO_ERROR
  /\ Len(connected_sensors) > 0
  /\ connected_sensors[Held].raw_value \in SnapshotRaw
  /\ \E rnd \in RandomDraws(connected_sensors),
        noise \in SnapshotNoise(connected_sensors) :
       \E S1 \in {apply_sensor_uncertainty(connected_sensors, rnd, noise)} :
         \E at \in Moments(S1) :
           /\ reply' = response_MS_during(S1, at)
           /\ connected_sensors' =
                [k \in 1..Len(S1) |->
                   IF at[k] = 0 THEN S1[k]
                   ELSE update_timing_input_status(S1[k])]
  /\ request' = MSLine
  /\ raised' = "none"
  /\ op' = "response_MS"
  /\ UNCHANGED <<internal_error, mask_sensor_status, now, steps>>

SnapshotWrites == {<<136, PEAK_HOLD>>} \cup {<<138, v>> : v \in {0, 1}}

SnapshotNext ==
  \/ Compose
  \/ \E w \in SnapshotWrites : Write(Held, w[1], w[2])
  \/ \E value \in SnapshotRaw : Feed(Held, value)
  \/ \E value \in BOOLEAN : SetExternalInput(Held, value)
  \/ InputThread(Held)
  \/ ConcurrentMS

SnapshotSpec == Init /\ [][SnapshotNext]_vars

(* the EEPROM scheduler: settings are written while time passes and      *)
(* _eeprom_thread polls. The clock advances second by second for         *)
(* MaxElapsed seconds.                                                   *)
MaxElapsed == 5

Elapse ==
  /\ steps = 0
  /\ now < StartTime + MaxElapsed
  /\ now' = now + 1
  /\ op' = "sleep"
  /\ UNCHANGED <<connected_sensors, internal_error, mask_sensor_status,
                 request, reply, raised, steps>>

(* a pass of perform_eeprom_writes of amplifier i that finds the         *)
(* deadline elapsed                                                      *)
EepromPass(i) ==
  /\ steps = 0
  /\ i \in 1..Len(connected_sensors)
  /\ connected_sensors[i].keep_threads_alive
  /\ perform_eeprom_writes(connected_sensors[i], now) # connected_sensors[i]
  /\ connected_sensors' =
       [connected_sensors EXCEPT ![i] = perform_eeprom_writes(@, now)]
  /\ op' = "perform_eeprom_writes"
  /\ UNCHANGED <<internal_error, mask_sensor_status, now, request, reply,
                 raised, steps>>

(* initial reset, system parameter set request, bank, laser emission    *)
(* stop, system parameter settings, zero shift memory, and of bank 0 the *)
(* HIGH threshold and the shift target                                   *)
ArmWrites ==
  {<<q, 1>> : q \in {5, 6, 98, 100, 105, 152}}
  \cup {<<65, 4000>>, <<67, 1000>>}

(* SW on a register of amplifier i served while _eeprom_thread polls *)
WriteWhilePolling(i, query_data, setting_data) ==
  /\ steps = 0
  /\ i \in 1..Len(connected_sensors)
  /\ \E r \in {sensor_handle_write(connected_sensors, i, query_data,
                                   setting_data, now)} :
       /\ connected_sensors'
            \in EepromRaces(connected_sensors, r.S,
                            SWLine(i, query_data, setting_data), now)
       /\ raised' = r.exc
  /\ op' = "handle_write"
  /\ UNCHANGED <<internal_error, mask_sensor_status, now, request, reply,
                 steps>>

ArmNext ==
  \/ Compose
  \/ \E w \in ArmWrites : WriteWhilePolling(Held, w[1], w[2])
  \/ Elapse
  \/ EepromPass(Held)

ArmSpec == Init /\ [][ArmNext]_vars

(* set_error called by the simulation on amplifier i at any time *)
Break(i, code) ==
  /\ steps = 0
  /\ i \in 1..Len(connected_sensors)
  /\ connected_sensors[i].internal_error # code
  /\ connected_sensors' =
       [connected_sensors EXCEPT ![i] = set_error(@, code)]
  /\ op' = "set_error"
  /\ UNCHANGED <<internal_error, mask_sensor_status, now, request, reply,
                 raised, steps>>

(* error words: none, single bits, and EEPROM together with another bit *)
ErrorWords ==
  {IL_NO_ERROR, IL_Overcurrent, IL_EEPROM, IL_EEPROM + IL_Overcurrent,
   IL_Sensor_Head, IL_EEPROM + IL_Sensor_Head}

(* the EEPROM write of a faulty amplifier: errors come and go while the  *)
(* deadline runs, laser emission stop is written to arm again            *)
EepromWrites == {<<100, v>> : v \in {0, 1}}

EepromNext ==
  \/ Compose
  \/ \E code \in ErrorWords : Break(Held, code)
  \/ \E w \in EepromWrites : WriteWhilePolling(Held, w[1], w[2])
  \/ Elapse
  \/ EepromPass(Held)

EepromSpec == Init /\ [][EepromNext]_vars

(* the judgment outputs of a faulty amplifier: errors are set, laser     *)
(* emission stop and the timing input are written, and raw values inside *)
(* the thresholds, beyond them and beyond the bounds arrive              *)
GoRaw ==
  {None} \cup {Some(v * SubUnit) : v \in {1000, 6000, -6000, 100000, -100000}}

GoWrites == {<<100, v>> : v \in {0, 1}} \cup {<<99, v>> : v \in {0, 1}}

GoNext ==
  \/ Compose
  \/ \E code \in ErrorWords : Break(Held, code)
  \/ \E w \in GoWrites : Write(Held, w[1], w[2])
  \/ \E value \in GoRaw : Feed(Held, value)

GoSpec == Init /\ [][GoNext]_vars

(* System parameter staging: register 105 stages the transistor and the *)
(* analog output mode, register 006 applies what is staged; the writes   *)
(* go to the amplifier added last, which is an expansion unit as soon    *)
(* as the bus holds two amplifiers.                                      *)
SystemWrites ==
  {<<105, v>> : v \in {0, 1, 2, 3, 8, 9, 10, 16}} \cup {<<6, 1>>}

SystemNext ==
  \/ Compose
  \/ \E w \in SystemWrites : Write(Held, w[1], w[2])

SystemSpec == Init /\ [][SystemNext]_vars

(* Zero shift: raw values are injected, the zero shift is executed (001) *)
(* or reset (002), the measurement direction (131) and the active bank    *)
(* (098) are changed.                                                     *)
ShiftRaw == {None, Some(1000 * SubUnit), Some(-2000 * SubUnit)}

ShiftWrites ==
  {<<1, 1>>, <<2, 1>>, <<131, 0>>, <<131, 1>>, <<98, 0>>, <<98, 1>>}

ShiftNext ==
  \/ Compose
  \/ \E value \in ShiftRaw : Feed(Held, value)
  \/ \E w \in ShiftWrites : Write(Held, w[1], w[2])

ShiftSpec == Init /\ [][ShiftNext]_vars

(* Two-stage calibration: raw values are injected, the first and second *)
(* stage requests of the calibration (019, 020), of the calculation      *)
(* calibration (021, 022) and of the HIGH side tuning (015, 016) are     *)
(* written, and the calibration function (107) and the calculation       *)
(* calibration mode (110) are switched. A second stage is requested      *)
(* while the coefficients are the initial ones, so that calibrations do  *)
(* not compound without bound.                                           *)
StageRaw == {None, Some(1000 * SubUnit), Some(5000 * SubUnit)}

StageWrites ==
  {<<q, 1>> : q \in {15, 16, 19, 20, 21, 22}}
    \cup {<<107, 0>>, <<107, 1>>, <<110, CALIBRATION_MODE_TWO_POINT>>}

Uncalibrated(a) ==
  /\ a.calibration_tilt = TiltScale /\ a.calibration_offset = 0
  /\ a.calculation_tilt = TiltScale /\ a.calculation_offset = 0

StageWrite(i, query_data, setting_data) ==
  /\ connected_sensors # <<>>
  /\ query_data \in {20, 22} => Uncalibrated(connected_sensors[i])
  /\ Write(i, query_data, setting_data)

StageNext ==
  \/ Compose
  \/ \E value \in StageRaw : Feed(Held, value)
  \/ \E w \in StageWrites : StageWrite(Held, w[1], w[2])

StageSpec == Init /\ [][StageNext]_vars

(* Two-point tuning of the thresholds: raw values are injected and the  *)
(* first and second point requests (015..018, 027, 028) are written.    *)
TuneWrites == {<<q, 1>> : q \in {15, 16, 17, 18, 27, 28}}

TuneNext ==
  \/ Compose
  \/ \E value \in StageRaw : Feed(Held, value)
  \/ \E w \in TuneWrites : Write(Held, w[1], w[2])

TuneSpec == Init /\ [][TuneNext]_vars

(* Initial reset after calibration: raw values are injected, the amplifier *)
(* is calibrated (107, 019, 020), its calculation is calibrated (110, 021, *)
(* 022), system parameters are staged and applied (105, 006), and the      *)
(* initial reset (005) is requested. A second stage is requested while the *)
(* coefficients it assigns are the initial ones.                           *)
ResetRaw == {Some(1000 * SubUnit), Some(5000 * SubUnit)}

ResetWrites ==
  {<<q, 1>> : q \in {5, 6, 19, 20, 21, 22, 107, 110}} \cup {<<105, 3>>}

ResetWrite(i, query_data, setting_data) ==
  /\ connected_sensors # <<>>
  /\ query_data = 20 =>
       /\ connected_sensors[i].calibration_tilt = TiltScale
       /\ connected_sensors[i].calibration_offset = 0
  /\ query_data = 22 =>
       /\ connected_sensors[i].calculation_tilt = TiltScale
       /\ connected_sensors[i].calculation_offset = 0
  /\ Write(i, query_data, setting_data)

ResetNext ==
  \/ Compose
  \/ \E value \in ResetRaw : Feed(Held, value)
  \/ \E w \in ResetWrites : ResetWrite(Held, w[1], w[2])

ResetSpec == Init /\ [][ResetNext]_vars

(* Stopping the background threads. A thread tests _keep_threads_alive   *)
(* (LoopTest) and runs one iteration of its loop (LoopBody) as separate  *)
(* steps, so that stop_threads may fall between the two. Time passes to  *)
(* the deadline that is ahead, and external input 3 is switched on.      *)
StopThreads ==
  /\ steps = 0
  /\ connected_sensors # <<>>
  /\ connected_sensors' =
       [k \in DOMAIN connected_sensors |-> stop_threads(connected_sensors[k])]
  /\ op' = "stop_threads"
  /\ UNCHANGED <<internal_error, mask_sensor_status, now, request, reply,
                 raised, steps>>

LoopTest(i, thread) ==
  /\ steps = 0
  /\ i \in 1..Len(connected_sensors)
  /\ connected_sensors[i][thread] = "loop"
  /\ connected_sensors' =
       [connected_sensors EXCEPT ![i][thread] =
          IF connected_sensors[i].keep_threads_alive THEN "body" ELSE "done"]
  /\ op' = "while"
  /\ UNCHANGED <<internal_error, mask_sensor_status, now, request, reply,
                 raised, steps>>

LoopBody(i, thread) ==
  /\ steps = 0
  /\ i \in 1..Len(connected_sensors)
  /\ connected_sensors[i][thread] = "body"
  /\ connected_sensors' =
       [connected_sensors EXCEPT ![i] =
          [(IF thread = "eeprom_thread" THEN perform_eeprom_writes(@, now)
            ELSE update_timing_input_status(@)) EXCEPT ![thread] = "loop"]]
  /\ op' = IF thread = "eeprom_thread" THEN "perform_eeprom_writes"
           ELSE "perform_input_updates"
  /\ UNCHANGED <<internal_error, mask_sensor_status, now, request, reply,
                 raised, steps>>

ElapseToDeadline ==
  /\ steps = 0
  /\ now < LatestDeadline(connected_sensors)
  /\ now' = LatestDeadline(connected_sensors)
  /\ op' = "sleep"
  /\ UNCHANGED <<connected_sensors, internal_error, mask_sensor_status,
                 request, reply, raised, steps>>

StopNext ==
  \/ Compose
  \/ StopThreads
  \/ \E i \in 1..MaxSensors, thread \in Threads : LoopTest(i, thread)
  \/ \E i \in 1..MaxSensors, thread \in Threads : LoopBody(i, thread)
  \/ SetExternalInput(Held, TRUE)
  \/ ElapseToDeadline

(* the interpreter schedules every started thread again and again, and  *)
(* time.sleep(THREAD_SLEEP_DURATION) returns                            *)
StopSpec ==
  /\ Init /\ [][StopNext]_vars
  /\ \A i \in 1..MaxSensors, thread \in Threads :
       WF_vars(LoopTest(i, thread)) /\ WF_vars(LoopBody(i, thread))

(* Measurement noise: a raw value is injected and M0 and MS are served,  *)
(* each applying the uncertainty to every amplifier. The requests stop   *)
(* once an amplifier has drifted MaxDrift uncertainties away from the    *)
(* injected values.                                                      *)
MaxDrift == 2

NoiseRaw == {Some(1000 * SubUnit)}

(* the raw values injected: 0.0 by construction, and the values fed *)
Injected == {0} \cup {Val(v) : v \in NoiseRaw}

(* the distance of the raw value from the nearest injected value *)
Drift(a) ==
  CHOOSE d \in {Abs(Val(a.raw_value) - v) : v \in Injected} :
    \A v \in Injected : d <= Abs(Val(a.raw_value) - v)

(* the extreme draws of uniform(-uncertainty, uncertainty), one for each *)
(* amplifier                                                            *)
ExtremeDraws(S) ==
  {f \in [1..Len(S) -> UNION {{-S[k].uncertainty, S[k].uncertainty} :
                                k \in 1..Len(S)}] :
     \A k \in 1..Len(S) : f[k] \in {-S[k].uncertainty, S[k].uncertainty}}

(* handle_query(line) for M0 and MS with these draws *)
Measure(line) ==
  /\ steps = 0
  /\ \A k \in DOMAIN connected_sensors :
       Drift(connected_sensors[k]) < MaxDrift * connected_sensors[k].uncertainty
  /\ \E rnd \in RandomDraws(connected_sensors),
        noise \in ExtremeDraws(connected_sensors) :
       \E r \in {handle_query(connected_sensors, internal_error,
                              mask_sensor_status, line, rnd, noise, now)} :
          /\ connected_sensors' = r.S
          /\ mask_sensor_status' = r.mask
          /\ reply' = r.reply
          /\ raised' = r.exc
  /\ request' = line
  /\ op' = "handle_query"
  /\ UNCHANGED <<internal_error, now, steps>>

NoiseNext ==
  \/ Compose
  \/ \E value \in NoiseRaw : Feed(Held, value)
  \/ \E line \in {M0Line, MSLine} : Measure(line)

NoiseSpec == Init /\ [][NoiseNext]_vars

(* time passes, and _eeprom_thread wakes every THREAD_SLEEP_DURATION for *)
(* as long as _keep_threads_alive holds                                  *)
FairSpec ==
  /\ Spec
  /\ WF_vars(Tick)
  /\ \A i \in 1..MaxSensors : WF_vars(EepromThread(i))

----------------------------------------------------------------------------
(* Properties of the request engine *)

SR == <<"S", "R">>
SW == <<"S", "W">>
FR == <<"F", "R">>

(* the first two characters of a request line *)
Cmd(line) == SubSeq(line, 1, Min(2, Len(line)))

(* the line matched valid_query_regex and carries one of the commands cmds *)
WellFormed(line, cmds) == fullmatch(line).matched /\ Cmd(line) \in cmds

IdOf(line) == ParseInt(fullmatch(line).id)
QueryOf(line) == ParseInt(fullmatch(line).query_data)
ValueOf(line) == ParseInt(fullmatch(line).setting_data)

(* a text that is one line: it ends with CR LF and holds no other CR or LF *)
OneLine(s) ==
  /\ Len(s) >= 2
  /\ SubSeq(s, Len(s) - 1, Len(s)) = CRLF
  /\ \A k \in 1..(Len(s) - 2) : s[k] \notin {CR, LF}

AllAscii(s) == \A k \in 1..Len(s) : s[k] \in AsciiDigitSet

(* the request grammar: M0, MS, SR,<id2>,<q3>, SW,<id2>,<q3>,<sv10> and *)
(* FR,<id2>,<q3>, each followed by CR LF, the digits being 0..9         *)
InGrammar(line) ==
  \/ line \in {M0Line, MSLine}
  \/ /\ Len(line) = 11
     /\ Cmd(line) \in {SR, FR}
     /\ line[3] = "," /\ AllAscii(SubSeq(line, 4, 5))
     /\ line[6] = "," /\ AllAscii(SubSeq(line, 7, 9))
     /\ SubSeq(line, 10, 11) = CRLF
  \/ /\ Len(line) = 22
     /\ Cmd(line) = SW
     /\ line[3] = "," /\ AllAscii(SubSeq(line, 4, 5))
     /\ line[6] = "," /\ AllAscii(SubSeq(line, 7, 9))
     /\ line[10] = "," /\ line[11] \in {"+", "-"}
     /\ AllAscii(SubSeq(line, 12, 20))
     /\ SubSeq(line, 21, 22) = CRLF

(* the bus right after one IL-030 amplifier was added to a new unit *)
FreshIL030Bus == add_unit(<<>>, SensorUnit(create_IL_030, StartTime))

(* C1: every request line passed to handle_query is answered with exactly *)
(* one reply that ends with CR LF and holds no other CR or LF, and        *)
(* handle_query never ends by raising an exception.                       *)
C1_ExactlyOneReplyLine ==
  op = "handle_query" => raised = "none" /\ OneLine(reply)

(* C2: a request line outside the grammar is answered ER,<cmd2>,255 with  *)
(* <cmd2> its first two characters and leaves the bus and the amplifiers  *)
(* unchanged, also while the unit has an internal error.                  *)
C2_MalformedRejected ==
  [][(op' = "handle_query" /\ ~InGrammar(request'))
     => /\ raised' = "none"
        /\ reply' = ErrorReply(Cmd(request'), 255)
        /\ UNCHANGED bus]_vars

(* C3: while internal_error is not NO_ERROR every well-formed SR or SW is *)
(* answered with error 254 and changes no bus or amplifier variable.      *)
C3_InternalErrorAnswers254 ==
  [][(op' = "handle_query" /\ internal_error # DLEN1_NO_ERROR
      /\ WellFormed(request', {SR, SW}))
     => /\ raised' = "none"
        /\ reply' = ErrorReply(Cmd(request'), 254)
        /\ UNCHANGED bus]_vars

C3_Witness ==
  /\ op = "handle_query"
  /\ internal_error = DLEN1_ERROR_051
  /\ Len(connected_sensors) = 1
  /\ request = SWLine(1, 97, 1)
  /\ reply = ErrorReply(SW, 254)

(* what handle_query makes of a register read that gave r *)
ReadAnswered(id, q, r) == Answer(SR, AnswerRead(id, q, r))

(* C4: for SR and SW, id 00 goes to the communication unit's registers    *)
(* and id n >= 1 to the n-th amplifier of connected_sensors; an id above  *)
(* the number of amplifiers is answered with error 022 and changes        *)
(* nothing, whatever the register and the value.                          *)
C4_Routing ==
  [][(op' = "handle_query" /\ internal_error = DLEN1_NO_ERROR
      /\ Cmd(request') \in {SR, SW})
     => \A m \in {fullmatch(request')} :
          m.matched
          => \A id \in {ParseInt(m.id)}, q \in {ParseInt(m.query_data)} :
               IF id > Len(connected_sensors)
               THEN /\ raised' = "none"
                    /\ reply' = ErrorReply(Cmd(request'), 22)
                    /\ UNCHANGED bus
               ELSE IF id = 0
               THEN /\ connected_sensors' = connected_sensors
                    /\ Cmd(request') = SR
                       => [exc |-> raised', reply |-> reply'] =
                            ReadAnswered(0, q,
                              handle_read(connected_sensors, internal_error,
                                          mask_sensor_status, q))
               ELSE IF Cmd(request') = SR
               THEN [exc |-> raised', reply |-> reply'] =
                      ReadAnswered(id, q,
                        sensor_handle_read(connected_sensors[id], q))
               ELSE /\ mask_sensor_status' = mask_sensor_status
                    /\ \A S1 \in {sensor_handle_write(connected_sensors,
                                    id, q, ParseInt(m.setting_data), now).S} :
                         connected_sensors' \in
                           EepromRaces(connected_sensors, S1, request', now)]_vars

C4_Witness ==
  /\ op = "handle_query"
  /\ Len(connected_sensors) = 2
  /\ request = SWLine(3, 97, 1)
  /\ reply = ErrorReply(SW, 22)

(* C5: on an amplifier an index above 223 gives error 020 on read and on  *)
(* write; below that, reading a register that is only writable gives 016, *)
(* writing one that is only readable gives 014 and a register in neither  *)
(* mapping gives 031, in every state of the amplifier.                    *)
C5_RegisterClassification ==
  (op = "handle_query" /\ internal_error = DLEN1_NO_ERROR
   /\ Cmd(request) \in {SR, SW})
  => \A m \in {fullmatch(request)} :
       (m.matched /\ ParseInt(m.id) \in 1..Len(connected_sensors))
       => \A q \in {ParseInt(m.query_data)}, cmd \in {Cmd(request)} :
            /\ q > 223 => reply = ErrorReply(cmd, 20)
            /\ (q <= 223 /\ cmd = SR /\ q \notin sensor_read_mapping
                /\ q \in sensor_write_mapping)
               => reply = ErrorReply(cmd, 16)
            /\ (q <= 223 /\ cmd = SW /\ q \notin sensor_write_mapping
                /\ q \in sensor_read_mapping)
               => reply = ErrorReply(cmd, 14)
            /\ (q <= 223 /\ q \notin sensor_read_mapping
                /\ q \notin sensor_write_mapping)
               => reply = ErrorReply(cmd, 31)

C5_Witness ==
  /\ op = "handle_query"
  /\ request = SRLine(2, 1)
  /\ Len(connected_sensors) = 2
  /\ reply = ErrorReply(SR, 16)

(* C6 as the request table gives it: on a new bus with one IL-030 *)
(* amplifier SR,01,500 is answered ER,SR,031.                     *)
C6_AnsweredInaccessible ==
  [][(op' = "handle_query" /\ steps = 0 /\ connected_sensors = FreshIL030Bus
      /\ request' = SRLine(1, 500))
     => reply' = ErrorReply(SR, 31)]_vars

(* C6: on a new bus with one IL-030 amplifier SR,01,500 is answered       *)
(* ER,SR,020: 500 is above 223, and that test comes before the mappings   *)
(* are looked at.                                                         *)
C6_AnsweredOutOfRange ==
  [][(op' = "handle_query" /\ steps = 0 /\ connected_sensors = FreshIL030Bus
      /\ request' = SRLine(1, 500))
     => /\ raised' = "none"
        /\ reply' = ErrorReply(SR, 20)
        /\ UNCHANGED bus]_vars

C6_Witness ==
  /\ op = "handle_query"
  /\ request = SRLine(1, 500)
  /\ reply = ErrorReply(SR, 20)
  /\ internal_error = DLEN1_NO_ERROR
  /\ connected_sensors = FreshIL030Bus

(* the error codes an amplifier's register access may answer with *)
AmplifierErrorCodes == {9, 12, 14, 16, 20, 31}

(* C7: for every register index up to 223 of an amplifier, every value    *)
(* and every state, a read or write gives a value (or success) or an      *)
(* error with a code in {009, 012, 014, 016, 020, 031}; no other code and *)
(* no other exception.                                                    *)
C7_OnlyAmplifierErrors ==
  (op = "handle_query" /\ internal_error = DLEN1_NO_ERROR
   /\ WellFormed(request, {SR, SW})
   /\ IdOf(request) \in 1..Len(connected_sensors)
   /\ QueryOf(request) <= 223)
  => /\ raised = "none"
     /\ \/ reply = FormatWrite(IdOf(request), QueryOf(request))
        \/ (Cmd(request) = SR /\ Len(reply) > 10
            /\ SubSeq(reply, 1, 10)
                 = SubSeq(SRLine(IdOf(request), QueryOf(request)), 1, 9)
                   \o Comma)
        \/ \E c \in AmplifierErrorCodes : reply = ErrorReply(Cmd(request), c)

(* the write-only action registers: they take the value 1 only *)
ActionRegisters == (1..28) \cap sensor_write_mapping

(* the values a register takes according to its handler's description: *)
(* 1 for an action register; for 105 bit 0 and, on a main unit only,    *)
(* bits 1..3 with 000..100                                              *)
ValidDomain(a, n) ==
  IF n \in ActionRegisters THEN {1}
  ELSE IF a.is_main_unit THEN 0..9 ELSE {0, 1}

(* C8: an SW to a writable register with a value outside the register's  *)
(* domain (for an action register every value but 1) is answered         *)
(* ER,SW,009 and leaves every variable of the amplifier unchanged.       *)
C8_OutOfDomainWriteRejected ==
  [][(op' = "handle_query" /\ internal_error = DLEN1_NO_ERROR
      /\ WellFormed(request', {SW})
      /\ IdOf(request') \in 1..Len(connected_sensors)
      /\ QueryOf(request') \in ActionRegisters \cup {105}
      /\ ValueOf(request')
           \notin ValidDomain(connected_sensors[IdOf(request')],
                              QueryOf(request')))
     => /\ raised' = "none"
        /\ reply' = ErrorReply(SW, 9)
        /\ connected_sensors' = connected_sensors]_vars

(* C9: an SR or FR request changes no variable of the bus or of an      *)
(* amplifier, whether it is answered with a value or with an error, and *)
(* of all requests only M0 and MS change an amplifier's raw_value.      *)
C9_ReadsChangeNothing ==
  [][op' = "handle_query"
     => /\ Cmd(request') \in {SR, FR} => UNCHANGED bus
        /\ (\E k \in 1..Len(connected_sensors) :
              connected_sensors'[k].raw_value # connected_sensors[k].raw_value)
           => request' \in {M0Line, MSLine}]_vars

C9_Witness ==
  /\ op = "handle_query"
  /\ request = SRLine(1, 37)
  /\ Len(reply) > 10 /\ Cmd(reply) = SR
  /\ Len(connected_sensors) = 2
  /\ connected_sensors[1].raw_value = Some(1234 * SubUnit)

(* C10 as the request table gives it: on a new bus with one IL-030 *)
(* amplifier (raw_value 0) M0 is answered M0,+000000000.           *)
C10_AnsweredZero ==
  [][(op' = "handle_query" /\ steps = 0 /\ connected_sensors = FreshIL030Bus
      /\ request' = M0Line)
     => reply' = <<"M", "0", ",">> \o Signed10(0) \o CRLF]_vars

(* C10: on a new bus with one IL-030 amplifier (raw_value 0) M0 first   *)
(* adds the draw from [-uncertainty, uncertainty] to raw_value and then *)
(* answers M0,<sv10> with that value, which lies within the amplifier's *)
(* uncertainty (10 display units) of zero.                              *)
C10_AnsweredWithinUncertainty ==
  [][(op' = "handle_query" /\ steps = 0 /\ connected_sensors = FreshIL030Bus
      /\ request' = M0Line)
     => /\ raised' = "none"
        /\ \E v \in (-create_IL_030.uncertainty)..create_IL_030.uncertainty :
             /\ reply' = <<"M", "0", ",">> \o Signed10(v) \o CRLF
             /\ judgment_value_for_communication_unit(connected_sensors'[1])
                  = v]_vars

C10_Witness ==
  /\ op = "handle_query"
  /\ request = M0Line
  /\ Len(connected_sensors) = 1
  /\ connected_sensors[1].raw_value
       = Some(create_IL_030.uncertainty * SubUnit)
  /\ reply = <<"M", "0", ",">> \o Signed10(create_IL_030.uncertainty) \o CRLF

(* a sign followed by exactly nine ASCII decimal digits *)
IsSignedNine(text) ==
  /\ Len(text) = 10
  /\ text[1] \in {"+", "-"}
  /\ \A k \in 2..10 : text[k] \in AsciiDigitSet

(* the reply is SR,ii,qqq,<data> CR LF: its data field *)
ReadData(text) == SubSeq(text, 11, Len(text) - 2)

(* C11 as stated: every successful reply to an SR request, for every *)
(* readable register of the communication unit and of every          *)
(* amplifier, is SR,ii,qqq,svvvvvvvvv CR LF with a sign and exactly  *)
(* nine digits, 23 characters in all.                                *)
C11_EverySuccessIsSignedInteger ==
  [][(op' = "handle_query" /\ Cmd(request') = SR /\ Cmd(reply') = SR)
     => /\ Len(reply') = 23
        /\ IsSignedNine(ReadData(reply'))]_vars

(* C11: every successful reply to an SR request is SR,ii,qqq,<data>   *)
(* CR LF where <data> is a sign and exactly nine digits (23           *)
(* characters in all), except for amplifier register 200, whose data  *)
(* is the twelve-character product name (25 characters in all).       *)
C11_SignedIntegerOrProductName ==
  [][(op' = "handle_query" /\ Cmd(request') = SR /\ Cmd(reply') = SR)
     => /\ OneLine(reply')
        /\ SubSeq(reply', 1, 10)
             = SR \o Comma \o PadLeft(IdOf(request'), 2) \o Comma
               \o PadLeft(QueryOf(request'), 3) \o Comma
        /\ IF IdOf(request') # 0 /\ QueryOf(request') = ProductNameQuery
           THEN /\ Len(reply') = 24
                /\ ReadData(reply')
                     = read_200(connected_sensors[IdOf(request')])
           ELSE /\ Len(reply') = 22
                /\ IsSignedNine(ReadData(reply'))]_vars

C11_Witness ==
  /\ op = "handle_query"
  /\ request = SRLine(2, ProductNameQuery)
  /\ Len(connected_sensors) = 2
  /\ reply = FormatRead(2, ProductNameQuery, read_200(connected_sensors[2]))
  /\ Len(reply) = 24

(* what SR,id,n gives in the bus S: the register value, before formatting *)
ReadBack(S, id, n) == sensor_handle_read(S[id], n).output

(* C12: for every amplifier, every bank b in 0..3 and k in 0..4, and   *)
(* every wire value v in -99999..+99999, SW of v to register 065+5b+k  *)
(* is accepted, SR of that register afterwards returns v, and no other *)
(* bank register changes.                                              *)
C12_BankWriteReadsBack ==
  [][(op' = "handle_query" /\ internal_error = DLEN1_NO_ERROR
      /\ WellFormed(request', {SW})
      /\ IdOf(request') \in 1..Len(connected_sensors)
      /\ QueryOf(request') \in BankRegisters
      /\ ValueOf(request') \in WireRange)
     => \A id \in {IdOf(request')}, n \in {QueryOf(request')} :
          /\ raised' = "none"
          /\ reply' = FormatWrite(id, n)
          /\ ReadBack(connected_sensors', id, n) = ValueOf(request')
          /\ \A m \in BankRegisters \ {n} :
               ReadBack(connected_sensors', id, m)
                 = ReadBack(connected_sensors, id, m)]_vars

(* the read-write registers whose value is an integer code *)
IntegerCodedRegisters ==
  {97, 99, 100, 104, 105, 107} \cup (131..134) \cup {136} \cup (138..140)
  \cup (145..150) \cup {152} \cup (154..159) \cup {161, 162}

(* C13: for every read-write integer-coded register (097, 099, 100,    *)
(* 104, 105, 107, 131..134, 136, 138..140, 145..150, 152, 154..159,    *)
(* 161, 162) and every value v, an SW of v that is answered with       *)
(* success is followed by an SR of the register that returns v.        *)
C13_IntegerRegisterReadsBack ==
  [][(op' = "handle_query" /\ internal_error = DLEN1_NO_ERROR
      /\ WellFormed(request', {SW})
      /\ IdOf(request') \in 1..Len(connected_sensors)
      /\ QueryOf(request') \in IntegerCodedRegisters
      /\ raised' = "none"
      /\ reply' = FormatWrite(IdOf(request'), QueryOf(request')))
     => ReadBack(connected_sensors', IdOf(request'), QueryOf(request'))
          = ValueOf(request')]_vars

(* the setting registers: the registers that are read and written *)
SettingRegisters == sensor_read_mapping \cap sensor_write_mapping

(* sensor amplifier calibration (107, 108, 109) and the system *)
(* parameters (105), which write_005 leaves alone by design    *)
KeptRegisters == {105, 107, 108, 109}

RECURSIVE NewBus(_)
(* a bus of n newly constructed IL-030 amplifiers *)
NewBus(n) ==
  IF n = 0 THEN <<>>
  ELSE add_unit(NewBus(n - 1), SensorUnit(create_IL_030, StartTime))

(* the request was SW,id,005,+000000001 and it was answered SW,id,005 *)
InitialResetDone ==
  /\ op' = "handle_query" /\ internal_error = DLEN1_NO_ERROR
  /\ WellFormed(request', {SW})
  /\ IdOf(request') \in 1..Len(connected_sensors)
  /\ QueryOf(request') = 5 /\ ValueOf(request') = 1
  /\ raised' = "none"
  /\ reply' = FormatWrite(IdOf(request'), 5)

Armed(i) ==
  /\ i \in 1..Len(connected_sensors)
  /\ IsNumber(connected_sensors[i].next_eeprom_write)

(* amplifier i's scheduler is at rest: no deadline, and register 053 *)
(* reads 1 (normal termination) or 2 (abnormal termination)          *)
Completed(i) ==
  /\ i \in 1..Len(connected_sensors)
  /\ IsNone(connected_sensors[i].next_eeprom_write)
  /\ ReadBack(connected_sensors, i, 53)
       \in {NORMAL_TERMINATION, ABNORMAL_TERMINATION}

(* no further request comes, and the run is watched *)
Quiet == steps = MaxSteps /\ request \in ObservedLines

(* C15, first half: once the EEPROM scheduler is armed (2.0 s by a    *)
(* setting write, 3.0 s by an initial reset), register 053 reads 0    *)
(* (OPERATING) until the deadline has elapsed: the result never       *)
(* completes before the deadline.                                     *)
C15_OperatingUntilDeadline ==
  \A i \in 1..Len(connected_sensors) :
    (Armed(i) /\ now < Val(connected_sensors[i].next_eeprom_write))
      => ReadBack(connected_sensors, i, 53) = OPERATING

(* C15, second half: if no further mutation occurs and the background *)
(* observer keeps running, an armed scheduler eventually comes to     *)
(* rest with register 053 reading 1 or 2 and the deadline cleared: it *)
(* never stays OPERATING forever.                                     *)
C15_EventuallyCompleted ==
  \A i \in 1..MaxSensors : (Quiet /\ Armed(i)) ~> Completed(i)

(* a deadline is cleared only by a pass that found it elapsed *)
C15_ClearedOnlyWhenElapsed ==
  [][\A i \in 1..Len(connected_sensors) :
       (op' # "add_unit" /\ Armed(i)
        /\ IsNone(connected_sensors'[i].next_eeprom_write))
       => /\ op' = "perform_eeprom_writes"
          /\ Val(connected_sensors[i].next_eeprom_write) <= now]_vars

(* C16: after any sequence of add_unit / add_multiple_units calls that  *)
(* leaves at least one amplifier on the bus, exactly one amplifier has  *)
(* is_main_unit = true and it is the one at index 0; if a second        *)
(* amplifier exists, the first and the second reference each other as   *)
(* paired amplifier, and every amplifier at index >= 2 has is_main_unit *)
(* false and no paired amplifier.                                       *)
C16_OneMainUnitPairedWithSecond ==
  Len(connected_sensors) >= 1
  => /\ {k \in 1..Len(connected_sensors) : connected_sensors[k].is_main_unit}
          = {1}
     /\ Len(connected_sensors) >= 2
        => /\ connected_sensors[1].connected_amplifier = 2
           /\ connected_sensors[2].connected_amplifier = 1
     /\ \A k \in 3..Len(connected_sensors) :
          /\ ~connected_sensors[k].is_main_unit
          /\ connected_sensors[k].connected_amplifier = 0

(* three amplifiers in one batch, then a fourth on its own *)
C16_Witness ==
  /\ op = "add_unit"
  /\ Len(connected_sensors) = 4
  /\ connected_sensors[1].is_main_unit
  /\ connected_sensors[1].connected_amplifier = 2
  /\ ~connected_sensors[4].is_main_unit

(* C17: the number of amplifiers on a bus is at most 15 after any     *)
(* sequence of add_unit / add_multiple_units calls, so a wire id in   *)
(* 16..99 never addresses an amplifier and always yields error 022.   *)
C17_AtMostFifteenAmplifiers ==
  /\ Len(connected_sensors) <= 15
  /\ (op = "handle_query" /\ WellFormed(request, {SR, SW})
      /\ IdOf(request) \in 16..99)
     => reply = ErrorReply(Cmd(request), 22)

(* sample hold by level with the timing input off *)
SampleHoldTimingOff(a) ==
  /\ a.hold_function_setting = SAMPLE_HOLD
  /\ ~a.timing_input_on_edge
  /\ ~a.timing_input

(* this step assigned raw_value of amplifier k: the simulation's own *)
(* assignment, or the noise step of an answered M0 or MS             *)
RawValueAssigned(k) ==
  \/ \E value \in RawChoices : SetRawValue(k, value)
  \/ /\ op' = "handle_query"
     /\ request' \in {M0Line, MSLine}
     /\ raised' = "none"
     /\ Cmd(reply') = Cmd(request')

(* C18: in SAMPLE_HOLD with timing_input_on_edge = false and the       *)
(* effective timing_input = false, after every assignment to raw_value *)
(* (the noise step of M0/MS and the assignment of 'absent' included)   *)
(* the amplifier's P.V. equals its CALC value.                         *)
C18_SampleHoldFollowsCalc ==
  [][\A k \in 1..Len(connected_sensors) :
       (RawValueAssigned(k) /\ SampleHoldTimingOff(connected_sensors'[k]))
       => connected_sensors'[k].p_v_value
            = connected_sensors'[k].calc_value]_vars

(* 'absent' was assigned to the expansion unit's raw_value *)
C18_Witness ==
  /\ op = "set_raw_value"
  /\ Len(connected_sensors) = 2
  /\ SampleHoldTimingOff(connected_sensors[2])
  /\ IsNone(connected_sensors[2].raw_value)
  /\ IsNone(connected_sensors[2].calc_value)
  /\ IsNone(connected_sensors[2].p_v_value)

(* the judgment value as read off the amplifier's fields, first match *)
ClaimedJudgment(a) ==
  IF a.internal_error # IL_NO_ERROR THEN 100000000
  ELSE IF ~laser_active(a) \/ IsNone(a.p_v_value) THEN -99999998
  ELSE IF Val(a.p_v_value) > a.upper_bound THEN 99999999
  ELSE IF Val(a.p_v_value) < a.lower_bound THEN 99999999
  ELSE TruncDiv(Val(a.p_v_value), SubUnit)

(* the last case of the judgment value: a P.V. converted to a wire integer *)
Converted(a) ==
  /\ a.internal_error = IL_NO_ERROR
  /\ laser_active(a)
  /\ IsNumber(a.p_v_value)
  /\ Val(a.p_v_value) <= a.upper_bound
  /\ Val(a.p_v_value) >= a.lower_bound

(* the ten characters of amplifier k's value in an M0 (width 11) or MS *)
(* (width 14, the value after the two-digit state) reply               *)
ValueField(text, k, width) ==
  SubSeq(text, 4 + (k - 1) * width + (width - 11),
               13 + (k - 1) * width + (width - 11))

(* an answered request for judgment values *)
JudgmentAnswered ==
  /\ op = "handle_query"
  /\ raised = "none"
  /\ Cmd(reply) = Cmd(request)

CurrentRV(a) ==
  IF IsNone(a.raw_value) THEN None
  ELSE Some(Scaled(IF a.calibration_use_user_settings
                   THEN a.calibration_tilt ELSE TiltScale,
                   (IF a.reversed_measurement_direction THEN -1 ELSE 1)
                     * Val(a.raw_value)
                   - a.banks[a.active_bank_setting + 1].shift_target)
            + (IF a.calibration_use_user_settings
               THEN a.calibration_offset ELSE 0))

(* CALC as the current R.V. values and the calculation mode give it *)
CurrentCALC(S, k) ==
  IF IsNone(S[k].r_v_value) THEN None
  ELSE IF S[k].is_main_unit THEN get_calculated_value(S, k)
  ELSE S[k].r_v_value

(* C20: the four-stage cascade is consistent after every operation:     *)
(* whenever a request or a raw assignment has completed, R.V. equals    *)
(* tilt * (direction * raw - shift target of the effective bank) +      *)
(* offset computed from the current raw value, direction flag,          *)
(* calibration and bank contents (absent iff raw is absent), CALC is    *)
(* the value derived from the current R.V. values and calculation mode, *)
(* and in level-mode SAMPLE_HOLD with timing off P.V. equals that CALC; *)
(* so a write that changes a cascade input is reflected by the next SR  *)
(* of 037/038/041.                                                      *)
C20_CascadeConsistent ==
  op \in {"handle_query", "set_raw_value"}
  => \A k \in 1..Len(connected_sensors) :
       /\ connected_sensors[k].r_v_value = CurrentRV(connected_sensors[k])
       /\ connected_sensors[k].calc_value = CurrentCALC(connected_sensors, k)
       /\ SampleHoldTimingOff(connected_sensors[k])
          => connected_sensors[k].p_v_value = connected_sensors[k].calc_value

(* a raw value was assigned on a bus whose main unit calculates with its *)
(* expansion unit                                                        *)
CalculatingAfterAssignment ==
  /\ op = "set_raw_value"
  /\ Len(connected_sensors) >= 2
  /\ connected_sensors[1].is_main_unit
  /\ connected_sensors[1].connected_amplifier = 2
  /\ connected_sensors[1].calculation_mode
       \in {CALC_ADDITION, CALC_SUBTRACTION}

(* C21: on the main unit with calculation mode ADDITION or SUBTRACTION   *)
(* and a paired expansion unit, in every state reached by raw            *)
(* assignments on either unit, if the R.V. of the main unit or of the    *)
(* expansion unit is absent then the main unit's CALC is absent.         *)
C21_AbsentRVGivesAbsentCALC ==
  (/\ CalculatingAfterAssignment
   /\ \/ IsNone(connected_sensors[1].r_v_value)
      \/ IsNone(connected_sensors[2].r_v_value))
  => IsNone(connected_sensors[1].calc_value)

TimedModes == {PEAK_HOLD, BOTTOM_HOLD, PEAK_TO_PEAK_HOLD}

(* this step takes the timing input of amplifier k from 0 to 1 *)
RisingEdge(k) ==
  /\ ~connected_sensors[k].timing_input
  /\ connected_sensors'[k].timing_input

(* the hold value of the sampling period of a with one more CALC value c *)
(* seen: the maximum, the minimum, or maximum minus minimum              *)
Accumulated(a, c) ==
  LET peak == IF IsNone(a.hold_peak) THEN c
              ELSE IF Val(a.hold_peak) >= c THEN Val(a.hold_peak) ELSE c
      bottom == IF IsNone(a.hold_bottom) THEN c
                ELSE IF Val(a.hold_bottom) <= c THEN Val(a.hold_bottom) ELSE c
  IN [hold_peak |-> Some(peak), hold_bottom |-> Some(bottom),
      hold_value |-> Some(IF a.hold_function_setting = PEAK_HOLD THEN peak
                          ELSE IF a.hold_function_setting = BOTTOM_HOLD
                          THEN bottom
                          ELSE peak - bottom)]

HoldOf(a) ==
  [hold_peak |-> a.hold_peak, hold_bottom |-> a.hold_bottom,
   hold_value |-> a.hold_value]

(* a raw assignment reached amplifier k while it was sampling: its CALC *)
(* value, when present, is accumulated into the hold value              *)
AccumulatesWhileSampling(k) ==
  (/\ op' = "set_raw_value"
   /\ connected_sensors[k].currently_sampling
   /\ ~connected_sensors[k].error_during_sampling
   /\ connected_sensors'[k].raw_value # connected_sensors[k].raw_value
   /\ IsNumber(connected_sensors'[k].calc_value))
  => HoldOf(connected_sensors'[k])
       = Accumulated(connected_sensors[k],
                     Val(connected_sensors'[k].calc_value))

(* what C22 says of one step of amplifier k in a timed hold mode; *)
(* sampling_after is currently_sampling after a rising edge       *)
TimedHoldStep(k, sampling_after) ==
  connected_sensors[k].hold_function_setting \in TimedModes
  => /\ connected_sensors'[k].p_v_value # connected_sensors[k].p_v_value
        => RisingEdge(k)
     /\ RisingEdge(k)
        => /\ connected_sensors'[k].currently_sampling = sampling_after
           /\ connected_sensors'[k].p_v_value
                = connected_sensors[k].hold_value
     /\ AccumulatesWhileSampling(k)

Restart(k) ==
  /\ connected_sensors[k].hold_function_setting \in TimedModes
  /\ connected_sensors'[k].timing_input # connected_sensors[k].timing_input
  /\ \/ connected_sensors[k].timing_input_on_edge
     \/ ~connected_sensors'[k].timing_input

(* C23: in PEAK_HOLD, BOTTOM_HOLD and PEAK_TO_PEAK_HOLD every restart of *)
(* sampling leaves hold_peak, hold_bottom and hold_value absent,         *)
(* currently_sampling true and error_during_sampling false, whatever     *)
(* sequence of edges, raw assignments and hold-mode changes came before, *)
(* so that an absent CALC of an earlier period never blocks the new one. *)
C23_RestartClearsSamplingError ==
  [][\A k \in 1..Len(connected_sensors) :
       Restart(k)
       => /\ HoldOf(connected_sensors'[k])
               = [hold_peak |-> None, hold_bottom |-> None,
                  hold_value |-> None]
          /\ connected_sensors'[k].currently_sampling
          /\ ~connected_sensors'[k].error_during_sampling]_vars

AutoModes == {AUTO_PEAK_HOLD, AUTO_BOTTOM_HOLD}

(* the fields of a the hold functions work on *)
HoldState(a) ==
  [hold_peak |-> a.hold_peak, hold_bottom |-> a.hold_bottom,
   hold_value |-> a.hold_value, currently_sampling |-> a.currently_sampling,
   p_v_value |-> a.p_v_value]

(* the level at which automatic sampling ends *)
EndLevel(a) ==
  IF a.hold_function_setting = AUTO_PEAK_HOLD
  THEN a.auto_trigger_level - a.hysteresis
  ELSE a.auto_trigger_level + a.hysteresis

(* CALC c is absent or beyond the end level of a *)
Ends(a, c) ==
  \/ IsNone(c)
  \/ IF a.hold_function_setting = AUTO_PEAK_HOLD
     THEN Val(c) < EndLevel(a) ELSE Val(c) > EndLevel(a)

(* CALC c has passed the trigger level of a while a is sampling or its *)
(* timing input is off                                                 *)
Samples(a, c) ==
  /\ IsNumber(c)
  /\ IF a.hold_function_setting = AUTO_PEAK_HOLD
     THEN Val(c) > a.auto_trigger_level ELSE Val(c) < a.auto_trigger_level
  /\ a.currently_sampling \/ ~a.timing_input

(* the extreme of the sampling period of a with the value c added: the *)
(* maximum in AUTO_PEAK_HOLD, the minimum in AUTO_BOTTOM_HOLD          *)
Extreme(a, c) ==
  IF a.hold_function_setting = AUTO_PEAK_HOLD
  THEN IF a.currently_sampling /\ IsNumber(a.hold_peak)
          /\ Val(a.hold_peak) >= c
       THEN Val(a.hold_peak) ELSE c
  ELSE IF a.currently_sampling /\ IsNumber(a.hold_bottom)
          /\ Val(a.hold_bottom) <= c
       THEN Val(a.hold_bottom) ELSE c

(* C24: in AUTO_PEAK_HOLD, on every CALC update: if CALC is absent or    *)
(* below auto_trigger_level - hysteresis, sampling stops and P.V.        *)
(* becomes the current hold_value; if CALC is above auto_trigger_level   *)
(* and (sampling is in progress or timing_input is false), sampling      *)
(* starts if it was stopped (clearing the hold values) and hold_value    *)
(* becomes the maximum CALC of the current sampling period; otherwise    *)
(* nothing changes. AUTO_BOTTOM_HOLD is the mirror image with end level  *)
(* auto_trigger_level + hysteresis and hold_value the minimum.           *)
C24_AutoHoldStep ==
  [][\A k \in 1..Len(connected_sensors) :
       (/\ op' = "set_raw_value"
        /\ connected_sensors[k].hold_function_setting \in AutoModes
        /\ k = Held)
       => \A a \in {connected_sensors[k]}, b \in {connected_sensors'[k]} :
            IF Ends(a, b.calc_value)
            THEN HoldState(b) = [HoldState(a) EXCEPT
                                   !.currently_sampling = FALSE,
                                   !.p_v_value = a.hold_value]
            ELSE IF Samples(a, b.calc_value)
            THEN /\ b.currently_sampling
                 /\ b.p_v_value = a.p_v_value
                 /\ b.hold_value = Some(Extreme(a, Val(b.calc_value)))
                 /\ ~a.currently_sampling
                    => /\ b.hold_peak = b.calc_value
                       /\ b.hold_bottom = b.calc_value
            ELSE HoldState(b) = HoldState(a)]_vars

(* AUTO_PEAK_HOLD with trigger level 1.500 and hysteresis 0.400: after *)
(* 1.700 and 2.000 were sampled, 1.000 ended the period and P.V. took  *)
(* the maximum                                                         *)
C24_Witness ==
  /\ op = "set_raw_value"
  /\ Len(connected_sensors) = 1
  /\ connected_sensors[1].hold_function_setting = AUTO_PEAK_HOLD
  /\ connected_sensors[1].auto_trigger_level = 1500 * SubUnit
  /\ connected_sensors[1].hysteresis = 400 * SubUnit
  /\ connected_sensors[1].calc_value = Some(1000 * SubUnit)
  /\ ~connected_sensors[1].currently_sampling
  /\ connected_sensors[1].hold_bottom = Some(1700 * SubUnit)
  /\ connected_sensors[1].hold_peak = Some(2000 * SubUnit)
  /\ connected_sensors[1].p_v_value = Some(2000 * SubUnit)

(* the hold state and the timing input a single execution of write_099   *)
(* leaves behind                                                         *)
AfterOneEdge(a, v, t) ==
  [hold |-> HoldState(write_099(a, v, t).a),
   timing_input |-> write_099(a, v, t).a.timing_input]

(* C25: each 0->1 transition of the effective timing input triggers the  *)
(* rising-edge action of the hold state machine exactly once, also when  *)
(* the handler of register 099 and the input thread evaluate the timing  *)
(* input concurrently: after SW 099 = 1 on an amplifier whose timing     *)
(* input was off, the timing input is on and the hold state is the one   *)
(* a single rising edge produces, so the frozen P.V. is the hold value   *)
(* of the period that ended and not the cleared one of the next period.  *)
C25_RisingEdgeOnce ==
  [][(op' = "write_099"
      /\ ~connected_sensors[Held].timing_input
      /\ connected_sensors'[Held].stored_timing_input)
     => /\ connected_sensors'[Held].timing_input
        /\ HoldState(connected_sensors'[Held])
             = AfterOneEdge(connected_sensors[Held], 1, now).hold]_vars

(* the MS replies in which every amplifier's two fields come from one    *)
(* state of that amplifier: S is the bus when the reading starts, T when *)
(* the reply is returned                                                 *)
SnapshotReplies(S, T) ==
  {response_MS([k \in 1..Len(S) |-> IF before[k] THEN S[k] ELSE T[k]]) :
     before \in [1..Len(S) -> BOOLEAN]}

(* C26: an MS reply is an atomic snapshot of each amplifier: the         *)
(* output-state field and the value field reported for one amplifier are *)
(* computed from the same amplifier state, and no update of P.V. or the  *)
(* hold state by a timing edge is observed between them.                 *)
C26_SnapshotAtomic ==
  [][op' = "response_MS"
     => \E rnd \in RandomDraws(connected_sensors),
           noise \in SnapshotNoise(connected_sensors) :
          reply' \in SnapshotReplies(
                       apply_sensor_uncertainty(connected_sensors, rnd, noise),
                       connected_sensors')]_vars

(* the registers C27 names: the read-write settings 097..162, the bank   *)
(* thresholds and analog limits, and the action requests                 *)
ArmingRegisters ==
  (97..162) \cup {n \in BankRegisters : BankFieldOf(n) # "shift_target"}
  \cup {6, 14, 16, 18, 20, 22, 26, 28}

(* an amplifier with the scheduler's two fields blanked *)
StoredSettings(a) ==
  [a EXCEPT !.eeprom_write_result = OPERATING, !.next_eeprom_write = None]

(* register 053 reads 0 and the deadline is at least d seconds ahead *)
ArmedAhead(a, t, d) ==
  /\ read_053(a) = OPERATING
  /\ IsNumber(a.next_eeprom_write)
  /\ Val(a.next_eeprom_write) >= t + d

(* the step is the write w of amplifier k, it succeeds and no pass of   *)
(* _eeprom_thread falls into it                                        *)
Written(k, w) ==
  /\ op' = "handle_write"
  /\ raised' = "none"
  /\ \E r \in {sensor_handle_write(connected_sensors, k, w[1], w[2], now)} :
       r.exc = "none" /\ connected_sensors' = r.S

(* the step is the successful write w of amplifier k and changes it *)
WriteChanges(k, w) ==
  /\ Written(k, w)
  /\ StoredSettings(connected_sensors'[k])
       # StoredSettings(connected_sensors[k])

(* C27: every successful SW that changes a stored amplifier setting      *)
(* other than a bank shift target (the read-write registers 097..162,    *)
(* the bank threshold and analog-limit registers, the action requests    *)
(* 006, 014, 016, 018, 020, 022, 026, 028) sets register 053 to 0        *)
(* (OPERATING) and arms the deadline at least 2.0 s ahead.               *)
C27_SettingWriteArms ==
  [][\A w \in ArmWrites :
       (w[1] \in ArmingRegisters /\ WriteChanges(Held, w))
       => ArmedAhead(connected_sensors'[Held], now, 2)]_vars

(* the write_duration the handler of register q passes to                *)
(* start_eeprom_write on amplifier a, None if it does not call it:       *)
(* restore_default_settings 3.0, change_shift_target 0 and only with     *)
(* zero_shift_saved_in_memory, write_105 none, the others the default    *)
ArmDuration(a, q) ==
  CASE q = 5 -> Some(3)
    [] q \in BankRegisters /\ BankFieldOf(q) = "shift_target" ->
         IF a.zero_shift_saved_in_memory THEN Some(0) ELSE None
    [] q = 105 -> None
    [] OTHER -> Some(2)

(* the deadline after arming for d seconds at time t over deadline p *)
LaterDeadline(p, t, d) ==
  IF IsNumber(p) THEN Some(Max(Val(p), t + d)) ELSE Some(t + d)

(* the bus but for eeprom_write_result of amplifier k, the one field a   *)
(* pass of _eeprom_thread that falls into a write changes                *)
ButResult(S, k) == [S EXCEPT ![k].eeprom_write_result = OPERATING]

EepromBit(word) == (word \div IL_EEPROM) % 2 = 1

(* C29: when an armed EEPROM deadline elapses, the pass of the           *)
(* background thread sets the EEPROM result to ABNORMAL (2) if bit 1     *)
(* (EEPROM) is set in the amplifier's internal_error, whatever other     *)
(* error bits are set, and to NORMAL (1) otherwise.                      *)
C29_AbnormalIffEepromBit ==
  [][op' = "perform_eeprom_writes"
     => \A k \in 1..Len(connected_sensors) :
          connected_sensors'[k] # connected_sensors[k]
          => /\ IsNone(connected_sensors'[k].next_eeprom_write)
             /\ connected_sensors'[k].eeprom_write_result
                  = IF EepromBit(connected_sensors[k].internal_error)
                    THEN ABNORMAL_TERMINATION ELSE NORMAL_TERMINATION]_vars

(* laser active, raw present and within the representable bounds, P.V.  *)
(* present and within both thresholds of the effective bank             *)
Measurable(a) ==
  /\ laser_active(a)
  /\ IsNumber(a.raw_value)
  /\ IsNumber(a.p_v_value)
  /\ Val(a.raw_value) <= a.upper_bound
  /\ Val(a.raw_value) >= a.lower_bound
  /\ Val(a.p_v_value) <= threshold_high(a)
  /\ Val(a.p_v_value) >= threshold_low(a)

(* C30 as stated: the GO state is true exactly when the amplifier has no *)
(* error other than EEPROM and/or Overcurrent (errors made only of those *)
(* bits do not count), the laser is active, P.V. is present, raw is      *)
(* within the representable bounds and P.V. is within both thresholds of *)
(* the effective bank.                                                   *)
C30_GoUnlessOtherError ==
  \A k \in 1..Len(connected_sensors) :
    go_state(connected_sensors[k])
      <=> /\ connected_sensors[k].internal_error
               \in {IL_NO_ERROR, IL_Overcurrent, IL_EEPROM,
                    IL_EEPROM + IL_Overcurrent}
          /\ Measurable(connected_sensors[k])

(* C30 amended: the GO state is true exactly when internal_error is      *)
(* NO_ERROR or EEPROM alone (Overcurrent suppresses GO as it suppresses  *)
(* HIGH and LOW), the laser is active, raw and P.V. are present, raw is  *)
(* within the representable bounds and P.V. within both thresholds.      *)
C30_GoUnlessErrorButEeprom ==
  \A k \in 1..Len(connected_sensors) :
    go_state(connected_sensors[k])
      <=> /\ connected_sensors[k].internal_error \in {IL_NO_ERROR, IL_EEPROM}
          /\ Measurable(connected_sensors[k])

(* GO is on with the EEPROM error set, P.V. frozen inside the thresholds *)
(* by the timing input while raw has moved on inside the bounds          *)
C30_Witness ==
  /\ connected_sensors # <<>>
  /\ go_state(connected_sensors[Held])
  /\ connected_sensors[Held].internal_error = IL_EEPROM
  /\ connected_sensors[Held].timing_input
  /\ connected_sensors[Held].raw_value = Some(6000 * SubUnit)
  /\ connected_sensors[Held].p_v_value = Some(1000 * SubUnit)

(* bits 1..3 of a value written to register 105: the analog output mode *)
AnalogBits(v) == (v % 16) \div 2

(* the step is handle_write(105, v) on amplifier k *)
Staged(k, v) ==
  /\ op' = "handle_write"
  /\ \E r \in {sensor_handle_write(connected_sensors, k, 105, v, now)} :
       connected_sensors' = r.S /\ raised' = r.exc

(* C31: on an expansion unit a write to register 105 with any of bits 1..3 *)
(* set is rejected with an error, and future_analog_output_mode is left    *)
(* unchanged; only bit 0 can be staged there.                             *)
C31_ExpansionRejectsAnalogBits ==
  [][\A w \in SystemWrites :
       (/\ w[1] = 105
        /\ AnalogBits(w[2]) # 0
        /\ connected_sensors # <<>>
        /\ ~connected_sensors[Held].is_main_unit
        /\ Staged(Held, w[2]))
       => /\ raised' # "none"
          /\ connected_sensors'[Held].future_analog_output_mode
               = connected_sensors[Held].future_analog_output_mode]_vars

(* the step is handle_write(001, 1), the zero shift execution request, on *)
(* amplifier k                                                            *)
ZeroShifted(k) ==
  /\ op' = "handle_write"
  /\ \E r \in {sensor_handle_write(connected_sensors, k, 1, 1, now)} :
       connected_sensors' = r.S /\ raised' = r.exc

ShiftTargets(a) == [b \in DOMAIN a.banks |-> a.banks[b].shift_target]

(* C32: a zero shift request (SW 001 = 1) while the raw value is absent is *)
(* answered with error 012, sets the zero shift result (054) to ABNORMAL   *)
(* and leaves the shift_target of every bank unchanged; with a raw value   *)
(* present it sets the shift_target of the effective bank to the raw value *)
(* and the result to NORMAL.                                               *)
C32_ZeroShiftWithoutRawIsError ==
  [][(connected_sensors # <<>> /\ ZeroShifted(Held))
     => IF IsNone(connected_sensors[Held].raw_value)
        THEN /\ raised' = "NonExecutableStateError"
             /\ connected_sensors'[Held].zero_shifting_result
                  = ABNORMAL_TERMINATION
             /\ ShiftTargets(connected_sensors'[Held])
                  = ShiftTargets(connected_sensors[Held])
        ELSE /\ raised' = "none"
             /\ shift_target(connected_sensors'[Held])
                  = Val(connected_sensors[Held].raw_value)
             /\ connected_sensors'[Held].zero_shifting_result
                  = NORMAL_TERMINATION]_vars

(* the same without the error reply: the effects of the request *)
C32_ZeroShiftEffects ==
  [][(connected_sensors # <<>> /\ ZeroShifted(Held))
     => IF IsNone(connected_sensors[Held].raw_value)
        THEN /\ connected_sensors'[Held].zero_shifting_result
                  = ABNORMAL_TERMINATION
             /\ ShiftTargets(connected_sensors'[Held])
                  = ShiftTargets(connected_sensors[Held])
        ELSE /\ raised' = "none"
             /\ shift_target(connected_sensors'[Held])
                  = Val(connected_sensors[Held].raw_value)
             /\ connected_sensors'[Held].zero_shifting_result
                  = NORMAL_TERMINATION]_vars

(* the two-stage pairs: first stage, second stage, staging slot *)
StagePairs ==
  { <<15, 16, "two_point_high_side_1st_point">>,
    <<17, 18, "two_point_low_side_1st_point">>,
    <<19, 20, "calibration_set_1_before">>,
    <<21, 22, "calc_2p_calibration_set_1_before_calc">>,
    <<27, 28, "two_point_diff_count_1st_point">> }

(* the step is handle_write(q, 1) on amplifier k *)
Requested(k, q) ==
  /\ op' = "handle_write"
  /\ \E r \in {sensor_handle_write(connected_sensors, k, q, 1, now)} :
       connected_sensors' = r.S /\ raised' = r.exc

(* C33: for the two-stage pairs 015/016, 017/018, 019/020, 021/022 and    *)
(* 027/028, a successful first stage leaves the staging slot set; a       *)
(* second stage that fails with 012 leaves the slot cleared; and a second *)
(* stage requested with the slot cleared fails with 012, so that it keeps *)
(* failing until a new first stage succeeds.                              *)
C33_FailedSecondStageClearsSlot ==
  [][\A p \in StagePairs :
       /\ (connected_sensors # <<>> /\ Requested(Held, p[1])
           /\ raised' = "none")
          => IsNumber(connected_sensors'[Held][p[3]])
       /\ (connected_sensors # <<>> /\ Requested(Held, p[2])
           /\ raised' = "NonExecutableStateError")
          => IsNone(connected_sensors'[Held][p[3]])
       /\ (connected_sensors # <<>> /\ Requested(Held, p[2])
           /\ IsNone(connected_sensors[Held][p[3]]))
          => /\ raised' = "NonExecutableStateError"
             /\ IsNone(connected_sensors'[Held][p[3]])]_vars

(* the threshold tuning pairs among the two-stage pairs *)
TunePairs == {p \in StagePairs : p[1] \in {15, 17, 27}}

Thresholds(a) ==
  [b \in DOMAIN a.banks |-> <<a.banks[b].threshold_high,
                             a.banks[b].threshold_low>>]

(* C40: a successful second-point tuning request (016, 018, 028) consumes *)
(* its staged first point: the slot is empty afterwards, and a second     *)
(* point request with an empty slot fails with 012 and leaves the         *)
(* thresholds unchanged, so a further second-point request without a new  *)
(* first-point request (015, 017, 027) fails.                             *)
C40_SecondPointConsumesFirst ==
  [][\A p \in TunePairs :
       /\ (connected_sensors # <<>> /\ Requested(Held, p[2])
           /\ raised' = "none")
          => IsNone(connected_sensors'[Held][p[3]])
       /\ (connected_sensors # <<>> /\ Requested(Held, p[2])
           /\ IsNone(connected_sensors[Held][p[3]]))
          => /\ raised' = "NonExecutableStateError"
             /\ Thresholds(connected_sensors'[Held])
                  = Thresholds(connected_sensors[Held])]_vars

(* the system parameters and the calibration coefficients of an amplifier *)
SystemAndCalibration(a) ==
  <<a.transistor_mode, a.analog_output_mode, a.future_transistor_mode,
    a.future_analog_output_mode, a.calibration_tilt, a.calibration_offset,
    a.calculation_tilt, a.calculation_offset>>

(* the step is a successful handle_write(005, 1), the initial reset, on *)
(* amplifier k                                                          *)
InitialReset(k) ==
  /\ op' = "handle_write"
  /\ raised' = "none"
  /\ \E r \in {sensor_handle_write(connected_sensors, k, 5, 1, now)} :
       connected_sensors' = r.S

(* C34: an initial reset (SW 005 = 1) leaves transistor_mode,             *)
(* analog_output_mode, future_transistor_mode, future_analog_output_mode  *)
(* and the calibration coefficients (calibration_tilt, calibration_offset, *)
(* calculation_tilt, calculation_offset) unchanged.                        *)
C34_ResetKeepsSystemAndCalibration ==
  [][(connected_sensors # <<>> /\ InitialReset(Held))
     => SystemAndCalibration(connected_sensors'[Held])
          = SystemAndCalibration(connected_sensors[Held])]_vars

(* an amplifier with applied system parameters and both calibrations done, *)
(* whose calculation calibration mode and calibration results are back at  *)
(* their initial values: the reset has acted on it                         *)
C34_Witness ==
  /\ connected_sensors # <<>>
  /\ op = "handle_write"
  /\ connected_sensors[Held].transistor_mode = 1
  /\ connected_sensors[Held].analog_output_mode = 1
  /\ connected_sensors[Held].calibration_tilt # TiltScale
  /\ connected_sensors[Held].calculation_tilt # TiltScale
  /\ connected_sensors[Held].calc_calibration_mode = 0
  /\ connected_sensors[Held].next_eeprom_write = Some(now + 3)

(* stop_threads has been called on the communication unit *)
Stopped ==
  /\ connected_sensors # <<>>
  /\ \A k \in DOMAIN connected_sensors :
       ~connected_sensors[k].keep_threads_alive

(* both background threads of every amplifier have returned *)
AllTerminated ==
  \A k \in DOMAIN connected_sensors, thread \in Threads :
    connected_sensors[k][thread] = "done"

(* the steps taken by a background thread *)
ThreadOps == {"while", "perform_eeprom_writes", "perform_input_updates"}

(* C35: after stop_threads on the communication unit, both background  *)
(* threads (EEPROM observer and external-input observer) of every      *)
(* connected amplifier eventually terminate, and once they have        *)
(* terminated they stay terminated and no step of a background thread  *)
(* changes the state any more.                                         *)
C35_StoppedThreadsTerminate ==
  /\ (op = "stop_threads") ~> AllTerminated
  /\ [][(Stopped /\ AllTerminated)
        => (op' \notin ThreadOps /\ AllTerminated')]_vars

(* both amplifiers stopped and drained after their threads completed an *)
(* EEPROM write and latched the timing input                            *)
C35_Witness ==
  /\ Len(connected_sensors) >= 2
  /\ Stopped
  /\ AllTerminated
  /\ connected_sensors[Held].eeprom_write_result = NORMAL_TERMINATION
  /\ connected_sensors[Held].timing_input

(* C36: in every reachable state, under every interleaving of the request *)
(* handlers that arm the EEPROM write and the background EEPROM thread, a *)
(* pending deadline implies that the EEPROM write result (register 053)   *)
(* is OPERATING.                                                          *)
C36_PendingImpliesOperating ==
  \A k \in DOMAIN connected_sensors :
    IsNumber(connected_sensors[k].next_eeprom_write)
      => connected_sensors[k].eeprom_write_result = OPERATING

(* C37: with randomization off the measurement noise does not accumulate: *)
(* after any number of M0 and MS requests the raw value of an amplifier   *)
(* is within its uncertainty of the raw value last injected. The injected *)
(* values lie further apart than the drift the requests are followed to,  *)
(* so the value last injected is the nearest one.                         *)
C37_NoiseDoesNotAccumulate ==
  \A k \in DOMAIN connected_sensors :
    (~connected_sensors[k].randomized
       /\ IsNumber(connected_sensors[k].raw_value))
      => Drift(connected_sensors[k]) <= connected_sensors[k].uncertainty

(* no internal error, laser active, raw value and P.V. present *)
Judging(a) ==
  /\ a.internal_error = IL_NO_ERROR
  /\ laser_active(a)
  /\ IsNumber(a.raw_value)
  /\ IsNumber(a.p_v_value)

(* C38: GO implies neither HIGH nor LOW; and with no internal error, the *)
(* laser active and raw value and P.V. present, at least one of HIGH,    *)
(* LOW and GO holds, so the state field of MS is not 00 then.            *)
C38_GoExcludesHighAndLow ==
  \A k \in DOMAIN connected_sensors :
    /\ go_state(connected_sensors[k])
         => /\ ~high_state(connected_sensors[k])
            /\ ~low_state(connected_sensors[k])
    /\ Judging(connected_sensors[k])
         => /\ \/ high_state(connected_sensors[k])
               \/ low_state(connected_sensors[k])
               \/ go_state(connected_sensors[k])
            /\ stringified_state(connected_sensors[k]) # <<"0", "0">>

(* a bus whose first amplifier judges GO and whose second judges HIGH on *)
(* a P.V. above the threshold                                            *)
C38_Witness ==
  /\ Len(connected_sensors) >= 2
  /\ Judging(connected_sensors[1])
  /\ go_state(connected_sensors[1])
  /\ Judging(connected_sensors[Held])
  /\ high_state(connected_sensors[Held])
  /\ ~go_state(connected_sensors[Held])
  /\ connected_sensors[Held].raw_value = Some(6000 * SubUnit)
  /\ stringified_state(connected_sensors[Held]) = <<"0", "1">>

(* the R.V. of amplifier k once the step's zero shift is followed by the *)
(* raw value setter running the cascade on the same raw value            *)
RecomputedRV(k) ==
  set_raw_value(connected_sensors', k,
                connected_sensors[k].raw_value)[k].r_v_value

(* C39: after a successful zero shift (SW 001 = 1) with the calibration *)
(* in its initial state, once R.V. is recomputed for the same raw value, *)
(* R.V. is 0, for the normal and for the reversed measurement direction. *)
C39_ZeroShiftZeroesRV ==
  [][(/\ connected_sensors # <<>>
      /\ ZeroShifted(Held)
      /\ raised' = "none"
      /\ IsNumber(connected_sensors[Held].raw_value)
      /\ ~connected_sensors[Held].calibration_use_user_settings)
     => RecomputedRV(Held) = Some(0)]_vars

(* the same for the normal measurement direction only *)
C39_ZeroShiftZeroesRVNormalDirection ==
  [][(/\ connected_sensors # <<>>
      /\ ZeroShifted(Held)
      /\ raised' = "none"
      /\ IsNumber(connected_sensors[Held].raw_value)
      /\ ~connected_sensors[Held].calibration_use_user_settings
      /\ ~connected_sensors[Held].reversed_measurement_direction)
     => RecomputedRV(Held) = Some(0)]_vars

====
